---- MODULE Spec2Model ----
(***************************************************************************)
(* State-machine model of the custom-select widgets: MultiSelect           *)
(* (src/src/MultiSelect.ts), SingleSelect (src/unnamed/part_007) and the   *)
(* option-tree helpers of NestedOptions / utils (src/src/NestedOptions.ts).*)
(*                                                                         *)
(* Strings (option values, labels, search queries) are sequences of        *)
(* one-character strings, so that '' is <<>> and concatenation is \o.      *)
(* The prefix "__group_" of a synthesized group key is one element.        *)
(***************************************************************************)
EXTENDS Integers, Sequences, FiniteSets, TLC

VARIABLES inst, msInstances, ssInstances, lastOp, steps, page

vars == <<inst, msInstances, ssInstances, lastOp, steps, page>>

(***************************************************************************)
(* JavaScript values                                                       *)
(***************************************************************************)

\* null where the code holds `string | null`: no string, since every element
\* of a string is a single character.
NULL == <<"null">>

\* JS truthiness of a `string | null` value: null and '' are falsy.
Truthy(s) == s # NULL /\ s # <<>>

\* Array.prototype.filter over a sequence of values
RECURSIVE FilterSeq(_, _)
FilterSeq(s, keep) ==
  IF s = <<>> THEN <<>>
  ELSE (IF Head(s) \in keep THEN <<Head(s)>> ELSE <<>>) \o FilterSeq(Tail(s), keep)

\* the set of elements of a sequence
Range(s) == {s[k] : k \in DOMAIN s}

(***************************************************************************)
(* utils: search                                                           *)
(***************************************************************************)

\* String.prototype.toLowerCase on one character
LowerChar(c) ==
  CASE c = "A" -> "a"
    [] c = "B" -> "b"
    [] c = "C" -> "c"
    [] c = "F" -> "f"
    [] c = "N" -> "n"
    [] OTHER -> c

\* String.prototype.trim
RECURSIVE TrimLeft(_)
TrimLeft(s) == IF s # <<>> /\ Head(s) = " " THEN TrimLeft(Tail(s)) ELSE s

RECURSIVE TrimRight(_)
TrimRight(s) ==
  IF s # <<>> /\ s[Len(s)] = " " THEN TrimRight(SubSeq(s, 1, Len(s) - 1)) ELSE s

normalizeText(text) == TrimRight(TrimLeft([k \in DOMAIN text |-> LowerChar(text[k])]))

\* String.prototype.startsWith
StartsWith(t, q) == Len(q) <= Len(t) /\ SubSeq(t, 1, Len(q)) = q

\* String.prototype.includes
Includes(t, q) ==
  \E k \in 0..(Len(t) - Len(q)) : SubSeq(t, k + 1, k + Len(q)) = q

\* a comparison of the text and the query as they are written
searchMatchRaw(text, query, strategy) ==
  IF query = <<>> THEN TRUE
  ELSE CASE strategy = "exact" -> text = query
         [] strategy = "startsWith" -> StartsWith(text, query)
         [] OTHER -> Includes(text, query)

searchMatch(text, query, strategy) ==
  IF query = <<>> THEN TRUE
  ELSE LET normalizedText == normalizeText(text)
           normalizedQuery == normalizeText(query)
       IN CASE strategy = "exact" -> normalizedText = normalizedQuery
            [] strategy = "startsWith" -> StartsWith(normalizedText, normalizedQuery)
            [] OTHER -> Includes(normalizedText, normalizedQuery)

(***************************************************************************)
(* The backing <select>: its children in document order.  `selected` is   *)
(* the selectedness of an <option>; the rest never changes.               *)
(***************************************************************************)

Option(value, text, disabled) ==
  [tagName |-> "OPTION", value |-> value, text |-> text, disabled |-> disabled,
   selected |-> FALSE, label |-> <<>>, options |-> <<>>]

OptGroup(label, disabled, options) ==
  [tagName |-> "OPTGROUP", value |-> <<>>, text |-> <<>>, disabled |-> disabled,
   selected |-> FALSE, label |-> label, options |-> options]

\* HTMLSelectElement.options: every <option>, also those inside an <optgroup>
RECURSIVE DomOptions(_)
DomOptions(dom) ==
  IF dom = <<>> THEN <<>>
  ELSE (IF Head(dom).tagName = "OPTGROUP" THEN Head(dom).options ELSE <<Head(dom)>>)
       \o DomOptions(Tail(dom))

\* utils.getSelectedValues: values of selectElement.selectedOptions
RECURSIVE SelectedOf(_)
SelectedOf(opts) ==
  IF opts = <<>> THEN <<>>
  ELSE (IF Head(opts).selected THEN <<Head(opts).value>> ELSE <<>>) \o SelectedOf(Tail(opts))

getSelectedValues(dom) == SelectedOf(DomOptions(dom))

\* one <option> after `option.selected = valueSet.has(option.value)`
SetSelectedOption(o, values) == [o EXCEPT !.selected = (o.value \in Range(values))]

\* utils.setSelectedValues
setSelectedValues(dom, values) ==
  [k \in DOMAIN dom |->
     IF dom[k].tagName = "OPTGROUP"
     THEN [dom[k] EXCEPT !.options =
             [j \in DOMAIN dom[k].options |-> SetSelectedOption(dom[k].options[j], values)]]
     ELSE SetSelectedOption(dom[k], values)]

\* utils.syncNativeSelect
syncNativeSelect(dom, values) == setSelectedValues(dom, values)

\* position in selectElement.options of the first option of value v, or 0
FirstOptionIndex(opts, v) ==
  IF \E k \in DOMAIN opts : opts[k].value = v
  THEN CHOOSE k \in DOMAIN opts :
         opts[k].value = v /\ \A j \in 1..(k - 1) : opts[j].value # v
  ELSE 0

\* number of <option>s that precede child k of the select
RECURSIVE OptionsBefore(_, _)
OptionsBefore(dom, k) ==
  IF k <= 1 THEN 0
  ELSE OptionsBefore(dom, k - 1)
       + (IF dom[k - 1].tagName = "OPTGROUP" THEN Len(dom[k - 1].options) ELSE 1)

\* `selectElement.value = v` on a single select: the first option of that
\* value becomes the selected one and every other is unselected; no option
\* of that value leaves none selected.
SetSelectValue(dom, v) ==
  LET hit == FirstOptionIndex(DomOptions(dom), v)
  IN [k \in DOMAIN dom |->
        IF dom[k].tagName = "OPTGROUP"
        THEN [dom[k] EXCEPT !.options =
                [j \in DOMAIN dom[k].options |->
                   [dom[k].options[j] EXCEPT !.selected = (OptionsBefore(dom, k) + j = hit)]]]
        ELSE [dom[k] EXCEPT !.selected = (OptionsBefore(dom, k) + 1 = hit)]]

(***************************************************************************)
(* NestedOptions: the option tree.  A node is addressed by its path:      *)
(* <<i>> is top-level node i, <<i, j>> its j-th child.                     *)
(***************************************************************************)

OptionData(value, text, disabled, selected, parent, children, level) ==
  [value |-> value, text |-> text, label |-> text, disabled |-> disabled,
   selected |-> selected, parent |-> parent, children |-> children,
   level |-> level, expanded |-> FALSE, indeterminate |-> FALSE]

parseFlatOptions(dom) ==
  LET opts == DomOptions(dom)
  IN [k \in DOMAIN opts |->
        OptionData(opts[k].value, opts[k].text, opts[k].disabled, opts[k].selected,
                   NULL, <<>>, 0)]

\* `__group_${optgroup.label}`
GroupKey(label) == <<"__group_">> \o label

parseNestedOptions(dom) ==
  [k \in DOMAIN dom |->
     IF dom[k].tagName = "OPTGROUP"
     THEN OptionData(GroupKey(dom[k].label), dom[k].label, dom[k].disabled, FALSE, NULL,
            [j \in DOMAIN dom[k].options |->
               OptionData(dom[k].options[j].value, dom[k].options[j].text,
                          dom[k].options[j].disabled, dom[k].options[j].selected,
                          GroupKey(dom[k].label), <<>>, 1)],
            0)
     ELSE OptionData(dom[k].value, dom[k].text, dom[k].disabled, dom[k].selected,
                     NULL, <<>>, 0)]

parseSelectElement(dom, nestedEnabled) ==
  IF nestedEnabled THEN parseNestedOptions(dom) ELSE parseFlatOptions(dom)

\* the node at a path
NodeAt(tree, p) == IF Len(p) = 1 THEN tree[p[1]] ELSE tree[p[1]].children[p[2]]

\* paths level by level: the top-level nodes from k, then their children
RECURSIVE FlattenLevels(_, _)
FlattenLevels(tree, k) ==
  [j \in 1..(Len(tree) - k + 1) |-> <<k + j - 1>>]
  \o (IF k > Len(tree) THEN <<>>
      ELSE [j \in DOMAIN tree[k].children |-> <<k, j>>]
           \o SubSeq(FlattenLevels(tree, k + 1), Len(tree) - k + 1,
                     Len(FlattenLevels(tree, k + 1))))

\* paths in the order of flattenOptions: a node, then its children
RECURSIVE FlattenFrom(_, _)
FlattenFrom(tree, k) ==
  IF k > Len(tree) THEN <<>>
  ELSE <<(<<k>>)>> \o [j \in DOMAIN tree[k].children |-> <<k, j>>] \o FlattenFrom(tree, k + 1)

FlattenPaths(tree) == FlattenFrom(tree, 1)

flattenOptions(tree) == [k \in DOMAIN FlattenPaths(tree) |-> NodeAt(tree, FlattenPaths(tree)[k])]

\* getAllValues(optionTree)
getAllValues(tree) == [k \in DOMAIN flattenOptions(tree) |-> flattenOptions(tree)[k].value]

\* no node
NoPath == <<>>

\* findOption: the first node of that value in flatten order
findOption(tree, value) ==
  LET ps == FlattenPaths(tree)
      hits == {k \in DOMAIN ps : NodeAt(tree, ps[k]).value = value}
  IN IF hits = {} THEN NoPath
     ELSE ps[CHOOSE k \in hits : \A j \in hits : k <= j]

\* the tree with the node at path p replaced
WithNode(tree, p, n) ==
  IF Len(p) = 1 THEN [tree EXCEPT ![p[1]] = n]
  ELSE [tree EXCEPT ![p[1]].children[p[2]] = n]

\* getLeafOptions
getLeafOptions(tree) ==
  LET ps == FlattenPaths(tree)
      RECURSIVE Leaves(_)
      Leaves(k) ==
        IF k > Len(ps) THEN <<>>
        ELSE (IF NodeAt(tree, ps[k]).children = <<>> THEN <<NodeAt(tree, ps[k])>> ELSE <<>>)
             \o Leaves(k + 1)
  IN Leaves(1)

\* getSelectedOptions
getSelectedOptions(tree) ==
  LET ps == FlattenPaths(tree)
      RECURSIVE Sel(_)
      Sel(k) ==
        IF k > Len(ps) THEN <<>>
        ELSE (IF NodeAt(tree, ps[k]).selected THEN <<NodeAt(tree, ps[k])>> ELSE <<>>)
             \o Sel(k + 1)
  IN Sel(1)

\* values of the selected leaves, as handleOptionClick collects them
SelectedLeafValues(tree) ==
  LET ls == getLeafOptions(tree)
      RECURSIVE Vals(_)
      Vals(k) ==
        IF k > Len(ls) THEN <<>>
        ELSE (IF ls[k].selected THEN <<ls[k].value>> ELSE <<>>) \o Vals(k + 1)
  IN Vals(1)

\* number of selected children of a node
SelectedChildren(n) == Cardinality({j \in DOMAIN n.children : n.children[j].selected})

\* a recount that marks the parent selected as soon as one child is
RecountAny(parent) ==
  [parent EXCEPT !.selected = (SelectedChildren(parent) > 0), !.indeterminate = FALSE]

\* the parent after the count of its selected children
Recount(parent) ==
  IF SelectedChildren(parent) = 0
  THEN [parent EXCEPT !.selected = FALSE, !.indeterminate = FALSE]
  ELSE IF SelectedChildren(parent) = Len(parent.children)
  THEN [parent EXCEPT !.selected = TRUE, !.indeterminate = FALSE]
  ELSE [parent EXCEPT !.selected = FALSE, !.indeterminate = TRUE]

\* updateParentState once findOption has answered
UpdateParentAt(tree, pp) ==
  IF pp = NoPath THEN tree
  ELSE IF NodeAt(tree, pp).children = <<>> THEN tree
  ELSE WithNode(tree, pp, Recount(NodeAt(tree, pp)))

\* updateParentState: recompute the parent of `option` from its children
\* (the recursion to grandparents ends at once: a parent has no parent)
updateParentState(option, tree) ==
  IF ~Truthy(option.parent) THEN tree
  ELSE UpdateParentAt(tree, findOption(tree, option.parent))

\* A reference to a node object: `old` tells whether it is a node of the tree
\* that refresh() discarded (still referenced by filteredData) or of optionData.
Ref(old, path) == [old |-> old, path |-> path]

\* the node object a reference denotes
Deref(s, r) == IF r.old THEN NodeAt(s.oldData, r.path) ELSE NodeAt(s.optionData, r.path)

\* the instance after the node object at r was mutated into n
PutNode(s, r, n) ==
  IF r.old THEN [s EXCEPT !.oldData = WithNode(@, r.path, n)]
  ELSE [s EXCEPT !.optionData = WithNode(@, r.path, n)]

\* a cascade that flips the children instead of setting them
SetChildrenToggled(n, flag) ==
  [n EXCEPT !.children =
     [j \in DOMAIN n.children |-> [n.children[j] EXCEPT !.selected = ~n.children[j].selected]]]

\* getChildOptions(option).forEach(child => child.selected = flag)
SetChildrenSelected(n, flag) ==
  [n EXCEPT !.children = [j \in DOMAIN n.children |-> [n.children[j] EXCEPT !.selected = flag]]]

\* option.selected = flag, and its children's when cascading
SetWithChildren(n, flag, cascade) ==
  IF cascade /\ n.children # <<>> THEN SetChildrenSelected([n EXCEPT !.selected = flag], flag)
  ELSE [n EXCEPT !.selected = flag]

\* the node stored at r, then updateParentState(option, allOptions)
PutAndUpdateParent(s, r, n) ==
  [PutNode(s, r, n) EXCEPT !.optionData = updateParentState(n, @)]

\* selectWithCascade(option, this.optionData, cascade)
selectWithCascade(s, r, cascade) ==
  PutAndUpdateParent(s, r, SetWithChildren(Deref(s, r), TRUE, cascade))

\* deselectWithCascade(option, this.optionData, cascade)
deselectWithCascade(s, r, cascade) ==
  PutAndUpdateParent(s, r,
    SetWithChildren([Deref(s, r) EXCEPT !.indeterminate = FALSE], FALSE, cascade))

\* NestedOptions.expandAll / collapseAll: every group
SetExpandedAll(tree, flag) ==
  [k \in DOMAIN tree |->
     IF tree[k].children # <<>> THEN [tree[k] EXCEPT !.expanded = flag] ELSE tree[k]]

expandAll(tree) == SetExpandedAll(tree, TRUE)

collapseAll(tree) == SetExpandedAll(tree, FALSE)

\* toggleExpand
toggleExpand(option) ==
  IF option.children # <<>> THEN [option EXCEPT !.expanded = ~option.expanded] ELSE option

(***************************************************************************)
(* One widget instance is a record s:                                      *)
(*   kind ("multi" / "single"), config, dom (the backing select),          *)
(*   optionData, selectedValues (multi), selectedValue (single),           *)
(*   filteredData, searchQuery, focusedOptionIndex, isOpen  - the fields   *)
(*   of the class;                                                         *)
(*   oldData   - the tree discarded by refresh() while filteredData still  *)
(*               holds its nodes (<<>> otherwise);                         *)
(*   searchInput - the text in the search <input>;                         *)
(*   rendered  - data-value of the option elements in the options list;    *)
(*   closeTimers - pending setTimeout(close, 100) continuations;           *)
(*   searchTimer - a debounced handleSearch is pending;                    *)
(*   disabled  - the trigger button and the select are disabled;           *)
(*   destroyed - destroy() was called;                                     *)
(*   hung      - a handler of the instance never returned;                 *)
(*   element   - the position on `page` of the backing select (0: the      *)
(*               select is not one of the elements of `page`);             *)
(*   events    - the events dispatched on the select by the last step.     *)
(***************************************************************************)

\* filteredData: null, or top-level nodes (by position) of optionData or,
\* after a refresh(), of the discarded tree
NullFilter == [isNull |-> TRUE, old |-> FALSE, items |-> <<>>]

\* the `values` (multi) or `value` (single) of an event detail
Values(s) == IF s.kind = "multi" THEN s.selectedValues ELSE <<s.selectedValue>>

\* 'multiselect:<name>' or 'singleselect:<name>'
Prefixed(s, name) == <<(IF s.kind = "multi" THEN "multiselect" ELSE "singleselect"), name>>

\* emitEvent(eventName, detail): dispatched on the select element
emitEvent(s, name, group, previous) ==
  [s EXCEPT !.events = Append(@, [name |-> name, values |-> Values(s),
                                  group |-> group, previousValues |-> previous])]

emitChangeEvent(s) == emitEvent(s, <<"change">>, NULL, <<>>)

\* emitEvent of the instance's own 'multiselect:<name>' / 'singleselect:<name>'
emitNamed(s, name, group, previous) == emitEvent(s, Prefixed(s, name), group, previous)

\* the top-level nodes renderOptions / getVisibleOptions walk
TopRefs(s, useFilter) ==
  IF useFilter /\ ~s.filteredData.isNull
  THEN [k \in DOMAIN s.filteredData.items |->
          Ref(s.filteredData.old, <<s.filteredData.items[k]>>)]
  ELSE [k \in DOMAIN s.optionData |-> Ref(FALSE, <<k>>)]

\* each top-level node followed by its children when it is an expanded group
RECURSIVE WithChildren(_, _, _)
WithChildren(s, tops, k) ==
  IF k > Len(tops) THEN <<>>
  ELSE LET r == tops[k]
           n == Deref(s, r)
       IN <<r>>
          \o (IF s.config.nestedOptions /\ n.expanded /\ n.children # <<>>
              THEN [j \in DOMAIN n.children |-> Ref(r.old, <<r.path[1], j>>)]
              ELSE <<>>)
          \o WithChildren(s, tops, k + 1)

getVisibleOptions(s) == WithChildren(s, TopRefs(s, TRUE), 1)

\* renderOptions(container, filteredData?): the option elements drawn
renderOptions(s, useFilter) ==
  LET refs == WithChildren(s, TopRefs(s, useFilter), 1)
  IN [s EXCEPT !.rendered = [k \in DOMAIN refs |-> Deref(s, refs[k]).value]]

\* a test of the node's own text alone
optionMatchesOwn(option, query, strategy) == searchMatch(option.text, query, strategy)

\* optionMatches: the node or one of its children matches
optionMatches(option, query, strategy) ==
  \/ searchMatch(option.text, query, strategy)
  \/ \E j \in DOMAIN option.children : searchMatch(option.children[j].text, query, strategy)

\* positions of the top-level nodes filterOptions retains
RECURSIVE MatchingTops(_, _, _, _)
MatchingTops(tree, query, strategy, k) ==
  IF k > Len(tree) THEN <<>>
  ELSE (IF optionMatches(tree[k], query, strategy) THEN <<k>> ELSE <<>>)
       \o MatchingTops(tree, query, strategy, k + 1)

\* filterOptions: sets filteredData and expands what it retains
filterOptions(s, query) ==
  LET hits == MatchingTops(s.optionData, query, s.config.searchStrategy, 1)
  IN [s EXCEPT
        !.filteredData = [isNull |-> FALSE, old |-> FALSE, items |-> hits],
        !.oldData = <<>>,
        !.optionData =
          [k \in DOMAIN @ |->
             IF k \in Range(hits) /\ s.config.nestedOptions /\ s.config.expandOnSearch
             THEN [@[k] EXCEPT !.expanded = TRUE] ELSE @[k]]]

\* a pass that handles the empty query like any other: an all-matching list
SearchedAllMatching(s, query) == renderOptions(filterOptions(s, query), TRUE)

\* handleSearch: the branch on the query, with the render that follows it
Searched(s, query) ==
  IF query = <<>>
  THEN renderOptions([s EXCEPT !.filteredData = NullFilter, !.oldData = <<>>], FALSE)
  ELSE renderOptions(filterOptions(s, query), TRUE)

\* a pass that filters by the text of the field without recording it as the query
handleSearchUnrecorded(s) ==
  emitNamed([Searched(s, s.searchInput) EXCEPT !.focusedOptionIndex = -1],
            "search", NULL, <<>>)

\* handleSearch(e): e.target.value is the text of the search input
handleSearch(s) ==
  emitNamed([Searched([s EXCEPT !.searchQuery = s.searchInput], s.searchInput)
               EXCEPT !.focusedOptionIndex = -1],
            "search", NULL, <<>>)

\* an 'input' listener that runs the pass at once whatever the debounce
searchHandlerEager(s) == handleSearch(s)

\* the 'input' listener of the search field: debounced when searchDebounce > 0
searchHandler(s) ==
  IF s.config.searchDebounce > 0 THEN [s EXCEPT !.searchTimer = TRUE] ELSE handleSearch(s)

\* a close() that clears the search whatever the configuration
ClearSearchAlways(s) ==
  renderOptions([s EXCEPT !.searchInput = <<>>, !.searchQuery = <<>>,
                          !.filteredData = NullFilter, !.oldData = <<>>],
                FALSE)

\* close(): if (this.config.clearSearchOnClose && this.searchInput) { ... }
ClearSearch(s) ==
  IF s.config.clearSearchOnClose
  THEN renderOptions([s EXCEPT !.searchInput = <<>>, !.searchQuery = <<>>,
                               !.filteredData = NullFilter, !.oldData = <<>>],
                     FALSE)
  ELSE s

\* a close() that does not return early on a closed panel
closeUnguarded(s) ==
  emitNamed([ClearSearch([s EXCEPT !.isOpen = FALSE]) EXCEPT !.focusedOptionIndex = -1],
            "close", NULL, <<>>)

\* close()
close(s) ==
  IF ~s.isOpen THEN s
  ELSE emitNamed([ClearSearch([s EXCEPT !.isOpen = FALSE]) EXCEPT !.focusedOptionIndex = -1],
                 "close", NULL, <<>>)

\* an open() that starts with the first option focused
OpenSelfFocusFirst(s) ==
  emitNamed([s EXCEPT !.isOpen = TRUE, !.focusedOptionIndex = 0], "open", NULL, <<>>)

\* open(), the part that touches the instance itself
OpenSelf(s) ==
  emitNamed([s EXCEPT !.isOpen = TRUE, !.focusedOptionIndex = -1], "open", NULL, <<>>)

\* an open() that does not return early on an open panel
openUnguarded(I, i, registry) ==
  [j \in DOMAIN I |->
     IF j = i THEN OpenSelf(I[j])
     ELSE IF j \in registry /\ I[j].isOpen THEN close(I[j])
     ELSE I[j]]

\* open(): closes the open instances of the class's own registry first
open(I, i, registry) ==
  IF I[i].isOpen THEN I
  ELSE [j \in DOMAIN I |->
          IF j = i THEN OpenSelf(I[j])
          ELSE IF j \in registry /\ I[j].isOpen THEN close(I[j])
          ELSE I[j]]

\* toggle()
toggle(I, i, registry) ==
  IF I[i].isOpen THEN [I EXCEPT ![i] = close(@)] ELSE open(I, i, registry)

(***************************************************************************)
(* Selection                                                               *)
(***************************************************************************)

\* a loop that selects the nodes of the values in `keep` and leaves the
\* others as they are
SelectAlso(tree, keep) ==
  [k \in DOMAIN tree |->
     [tree[k] EXCEPT
        !.selected = (tree[k].selected \/ tree[k].value \in keep),
        !.children = [j \in DOMAIN tree[k].children |->
                        [tree[k].children[j] EXCEPT
                           !.selected = (tree[k].children[j].selected
                                         \/ tree[k].children[j].value \in keep)]]]]

\* flattenOptions(optionData).forEach(option => option.selected = pred(option.value))
SetAllSelected(tree, keep) ==
  [k \in DOMAIN tree |->
     [tree[k] EXCEPT
        !.selected = (tree[k].value \in keep),
        !.children = [j \in DOMAIN tree[k].children |->
                        [tree[k].children[j] EXCEPT
                           !.selected = (tree[k].children[j].value \in keep)]]]]

\* MultiSelect.handleOptionClick: the toggle of option.selected
ToggleSelected(s, r, option, cascade) ==
  IF option.selected
  THEN (IF cascade THEN deselectWithCascade(s, r, TRUE)
        ELSE PutNode(s, r, [option EXCEPT !.selected = FALSE]))
  ELSE (IF cascade THEN selectWithCascade(s, r, TRUE)
        ELSE PutNode(s, r, [option EXCEPT !.selected = TRUE]))

\* if (this.config.nestedOptions) NestedOptions.updateParentState(option, this.optionData)
UpdateParentOf(s, r) ==
  IF s.config.nestedOptions
  THEN [s EXCEPT !.optionData = updateParentState(Deref(s, r), @)]
  ELSE s

\* this.selectedValues = getLeafOptions(...).filter(selected).map(value)
CollectSelection(s) == [s EXCEPT !.selectedValues = SelectedLeafValues(s.optionData)]

\* syncNativeSelect(this.selectElement, this.selectedValues)
SyncSelection(s) == [s EXCEPT !.dom = syncNativeSelect(@, s.selectedValues)]

\* MultiSelect.handleOptionClick(option)
MultiSelect_handleOptionClick(s, r) ==
  emitChangeEvent(
    renderOptions(
      SyncSelection(
        CollectSelection(
          UpdateParentOf(
            ToggleSelected(s, r, Deref(s, r),
                           s.config.nestedOptions /\ s.config.cascadeSelection),
            r))),
      TRUE))

\* this.selectElement.value = this.selectedValue ?? ''
SyncSingle(s) ==
  [s EXCEPT !.dom = SetSelectValue(@, IF s.selectedValue = NULL THEN <<>> ELSE s.selectedValue)]

\* SingleSelect.handleOptionClick: all nodes deselected, then the clicked one
\* selected unless it was selected and allowDeselect is set
SelectOnly(s, r, option) ==
  IF ~(option.selected /\ s.config.allowDeselect)
  THEN [PutNode(s, r, [Deref(s, r) EXCEPT !.selected = TRUE])
          EXCEPT !.selectedValue = IF option.value = <<>> THEN NULL ELSE option.value]
  ELSE [s EXCEPT !.selectedValue = NULL]

\* setTimeout(() => this.close(), 100)
ScheduleClose(s) == [s EXCEPT !.closeTimers = @ + 1]

\* a handler that closes the panel itself instead of scheduling the close
CloseAtOnce(s) == IF s.config.closeOnSelect THEN close(s) ELSE s

\* if (this.config.closeOnSelect) setTimeout(...)
CloseOnSelect(s) == IF s.config.closeOnSelect THEN ScheduleClose(s) ELSE s

\* SingleSelect.handleOptionClick(option)
SingleSelect_handleOptionClick(s, r) ==
  IF Deref(s, r).disabled THEN s
  ELSE CloseOnSelect(emitChangeEvent(renderOptions(
         SyncSingle(SelectOnly([s EXCEPT !.optionData = SetAllSelected(@, {})], r, Deref(s, r))),
         TRUE)))

handleOptionClick(s, r) ==
  IF s.kind = "multi" THEN MultiSelect_handleOptionClick(s, r)
  ELSE SingleSelect_handleOptionClick(s, r)

\* the event handleExpandToggle emits once the flag is flipped
EmitToggled(s, r) ==
  emitNamed(s, IF Deref(s, r).expanded THEN "expand" ELSE "collapse", Deref(s, r).value, <<>>)

\* handleExpandToggle(option)
handleExpandToggle(s, r) ==
  IF Deref(s, r).children = <<>> THEN s
  ELSE EmitToggled(renderOptions(PutNode(s, r, toggleExpand(Deref(s, r))), TRUE), r)

\* handleOptionsClick once findOption has answered
ClickFound(s, value, action, p) ==
  IF (s.kind = "multi" /\ value = <<>>) \/ p = NoPath THEN s
  ELSE IF NodeAt(s.optionData, p).disabled THEN s
  ELSE IF action = "expand" THEN handleExpandToggle(s, Ref(FALSE, p))
  ELSE handleOptionClick(s, Ref(FALSE, p))

\* handleOptionsClick(e): a click on the option element of data-value `value`,
\* on its expand icon when action = "expand"
handleOptionsClick(s, value, action) ==
  ClickFound(s, value, action, findOption(s.optionData, value))

\* MultiSelect.setValue(values)
MultiSelect_setValue(s, values) ==
  emitChangeEvent([s EXCEPT !.selectedValues = values,
                            !.dom = syncNativeSelect(@, values),
                            !.optionData = SetAllSelected(@, Range(values))])

\* MultiSelect.selectAll()
selectAll(s) ==
  LET leaves == getLeafOptions(s.optionData)
      allValues == IF s.config.nestedOptions
                   THEN [k \in DOMAIN leaves |-> leaves[k].value]
                   ELSE [k \in DOMAIN s.optionData |-> s.optionData[k].value]
  IN MultiSelect_setValue(s, allValues)

\* MultiSelect.clearAll()
clearAll(s) == emitNamed(MultiSelect_setValue(s, <<>>), "clear", NULL, s.selectedValues)

\* if (this._isOpen && this.config.closeOnSelect) setTimeout(...)
CloseIfOpen(s) == IF s.isOpen /\ s.config.closeOnSelect THEN ScheduleClose(s) ELSE s

\* SingleSelect.setValue(value), without the allowDeselect branch
SetSingleValue(s, newValue) ==
  IF newValue = s.selectedValue THEN s
  ELSE CloseIfOpen(emitChangeEvent(renderOptions(
         [s EXCEPT !.selectedValue = newValue,
                   !.optionData = SetAllSelected(@, {newValue}),
                   !.dom = SetSelectValue(@, IF newValue = NULL THEN <<>> ELSE newValue)],
         TRUE)))

\* a clear() that does not return early when nothing is selected
clearUnguarded(s) == emitNamed(SetSingleValue(s, NULL), "clear", NULL, <<s.selectedValue>>)

\* SingleSelect.clear()
clear(s) ==
  IF s.selectedValue = NULL THEN s
  ELSE emitNamed(SetSingleValue(s, NULL), "clear", NULL, <<s.selectedValue>>)

\* SingleSelect.setValue(value)
SingleSelect_setValue(s, value) ==
  IF value # <<>> /\ value = s.selectedValue /\ s.config.allowDeselect /\ value # NULL
  THEN clear(s)
  ELSE SetSingleValue(s, IF value = <<>> THEN NULL ELSE value)

\* handleTagRemove once findOption has answered
\* a tag button that clears the whole selection
TagFoundClearing(s, value, p) == clearAll(s)

TagFound(s, value, p) ==
  IF value = <<>> \/ p = NoPath THEN s
  ELSE emitChangeEvent(SyncSelection(
         [s EXCEPT !.optionData = WithNode(@, p, [NodeAt(@, p) EXCEPT !.selected = FALSE]),
                   !.selectedValues = FilterSeq(@, Range(@) \ {value})]))

\* MultiSelect.handleTagRemove on the close button of the tag of `value`
handleTagRemove(s, value) == TagFound(s, value, findOption(s.optionData, value))

\* DEFAULT_CONFIG.maxTags
maxTags == 5

\* the options renderTags draws tags of
TagOptions(s, selectedOptions) ==
  FilterSeq(selectedOptions,
            {selectedOptions[k] : k \in {j \in DOMAIN selectedOptions :
                ~s.config.nestedOptions \/ selectedOptions[j].children = <<>>}})

\* leafOptions.slice(0, maxTags).map(value)
FirstTags(leafOptions) ==
  {leafOptions[k].value : k \in {j \in DOMAIN leafOptions : j <= maxTags}}

\* the tags renderTags draws: the first maxTags selected (leaf) options
TagValues(s) ==
  IF s.config.selectedDisplayMode # "tags" \/ s.selectedValues = <<>> THEN {}
  ELSE FirstTags(TagOptions(s, getSelectedOptions(s.optionData)))

(***************************************************************************)
(* Keyboard navigation                                                     *)
(***************************************************************************)

\* focusedOptionIndex after `x % 0`: NaN, a number no index equals
NaN == -1000

\* the result of a skip loop that never ends
Diverges == -2000

\* visibleOptions[index]?.disabled, index counted from 0
DisabledAt(s, visible, index) ==
  index \in 0..(Len(visible) - 1) /\ Deref(s, visible[index + 1]).disabled

\* (a + 1) % n as JavaScript computes it for a >= -1
NextIndex(a, n) == IF a = NaN \/ n = 0 THEN NaN ELSE (a + 1) % n

\* a - 1, wrapped to n - 1 below 0
PrevIndex(a, n) == IF a = NaN THEN NaN ELSE IF a - 1 < 0 THEN n - 1 ELSE a - 1

\* the while loop of ArrowDown; after Len(visible) rounds it has seen every
\* index it will ever see
RECURSIVE SkipDown(_, _, _, _)
SkipDown(s, visible, nextIndex, rounds) ==
  IF ~(DisabledAt(s, visible, nextIndex) /\ nextIndex # s.focusedOptionIndex) THEN nextIndex
  ELSE IF rounds > Len(visible) THEN Diverges
  ELSE SkipDown(s, visible, NextIndex(nextIndex, Len(visible)), rounds + 1)

\* the while loop of ArrowUp
RECURSIVE SkipUp(_, _, _, _)
SkipUp(s, visible, prevIndex, rounds) ==
  IF ~(DisabledAt(s, visible, prevIndex) /\ prevIndex # s.focusedOptionIndex) THEN prevIndex
  ELSE IF rounds > Len(visible) THEN Diverges
  ELSE SkipUp(s, visible, PrevIndex(prevIndex, Len(visible)), rounds + 1)

\* the instance with the focus at index, or hung when the loop diverged
Focus(s, index) ==
  IF index = Diverges THEN [s EXCEPT !.hung = TRUE] ELSE [s EXCEPT !.focusedOptionIndex = index]

\* the node at focusedOptionIndex, if any
HasFocused(s, visible) == s.focusedOptionIndex \in 0..(Len(visible) - 1)

\* visibleOptions[this.focusedOptionIndex]
Focused(s, visible) == Deref(s, visible[s.focusedOptionIndex + 1])

\* handleKeyboardNav once getVisibleOptions has answered
KeyboardNav(s, key, visibleOptions) ==
  CASE key = "ArrowDown" ->
         Focus(s, SkipDown(s, visibleOptions,
                           NextIndex(s.focusedOptionIndex, Len(visibleOptions)), 1))
    [] key = "ArrowUp" ->
         Focus(s, SkipUp(s, visibleOptions,
                         PrevIndex(s.focusedOptionIndex, Len(visibleOptions)), 1))
    [] key = "Home" -> Focus(s, 0)
    [] key = "End" -> Focus(s, Len(visibleOptions) - 1)
    [] key = "Enter" ->
         IF HasFocused(s, visibleOptions) /\ ~Focused(s, visibleOptions).disabled
         THEN handleOptionClick(s, visibleOptions[s.focusedOptionIndex + 1]) ELSE s
    [] key = "ArrowRight" ->
         IF s.config.nestedOptions /\ HasFocused(s, visibleOptions)
            /\ Focused(s, visibleOptions).children # <<>>
            /\ ~Focused(s, visibleOptions).expanded
         THEN handleExpandToggle(s, visibleOptions[s.focusedOptionIndex + 1]) ELSE s
    [] key = "ArrowLeft" ->
         IF s.config.nestedOptions /\ HasFocused(s, visibleOptions)
            /\ Focused(s, visibleOptions).children # <<>>
            /\ Focused(s, visibleOptions).expanded
         THEN handleExpandToggle(s, visibleOptions[s.focusedOptionIndex + 1]) ELSE s
    [] OTHER -> s

\* handleKeyboardNav(e) for the keys it handles itself
handleKeyboardNav(s, key) ==
  IF ~s.isOpen THEN s ELSE KeyboardNav(s, key, getVisibleOptions(s))

\* an Escape handler that closes whatever the search field holds
handleEscapeKeyCloses(s) == IF ~s.isOpen THEN s ELSE close(s)

\* handleEscapeKey(e) for e.key = 'Escape'
handleEscapeKey(s) ==
  IF ~s.isOpen THEN s
  ELSE IF s.searchInput # <<>> THEN searchHandler([s EXCEPT !.searchInput = <<>>])
  ELSE close(s)

\* visibleOptions.findIndex(opt => opt.value === value), counted from 0
FindIndex(s, visibleOptions, value) ==
  IF \A k \in DOMAIN visibleOptions : Deref(s, visibleOptions[k]).value # value THEN -1
  ELSE (CHOOSE k \in DOMAIN visibleOptions :
          /\ Deref(s, visibleOptions[k]).value = value
          /\ \A j \in 1..(k - 1) : Deref(s, visibleOptions[j]).value # value) - 1

\* handleFocusChange once findIndex has answered
FocusFound(s, value, index) ==
  IF value = <<>> \/ index = -1 THEN s ELSE [s EXCEPT !.focusedOptionIndex = index]

\* handleFocusChange(e): focus moved to the checkbox / radio of `value`
handleFocusChange(s, value) == FocusFound(s, value, FindIndex(s, getVisibleOptions(s), value))

\* handleFocusChange(e): focus moved to a footer button
handleFocusLeave(s) == [s EXCEPT !.focusedOptionIndex = -1]

(***************************************************************************)
(* Groups, refresh, lifecycle                                              *)
(***************************************************************************)

\* position of the first element of value v in a sequence, or 0
FirstIndex(seq, v) ==
  IF \E k \in DOMAIN seq : seq[k] = v
  THEN CHOOSE k \in DOMAIN seq : seq[k] = v /\ \A j \in 1..(k - 1) : seq[j] # v
  ELSE 0

\* Element.remove() on the first element of value v, if there is one
RemoveFirst(seq, v) ==
  LET k == FirstIndex(seq, v)
  IN IF k = 0 THEN seq ELSE SubSeq(seq, 1, k - 1) \o SubSeq(seq, k + 1, Len(seq))

RECURSIVE RemoveEach(_, _)
RemoveEach(seq, vs) ==
  IF vs = <<>> THEN seq ELSE RemoveEach(RemoveFirst(seq, Head(vs)), Tail(vs))

ChildValues(option) == [j \in DOMAIN option.children |-> option.children[j].value]

\* the children's elements inserted after the element at position `at`
InsertAfter(seq, at, items) ==
  IF at = 0 THEN seq ELSE SubSeq(seq, 1, at) \o items \o SubSeq(seq, at + 1, Len(seq))

\* an expandGroup that does not test option.expanded
ExpandNodeAlways(s, p, option) ==
  IF option.children = <<>> THEN s
  ELSE emitNamed(
         [s EXCEPT !.optionData = WithNode(@, p, [option EXCEPT !.expanded = TRUE]),
                   !.rendered = InsertAfter(@, FirstIndex(@, option.value), ChildValues(option))],
         "expand", option.value, <<>>)

\* expandGroup on the node findOption returned
ExpandNode(s, p, option) ==
  IF option.children = <<>> \/ option.expanded THEN s
  ELSE emitNamed(
         [s EXCEPT !.optionData = WithNode(@, p, [option EXCEPT !.expanded = TRUE]),
                   !.rendered = InsertAfter(@, FirstIndex(@, option.value), ChildValues(option))],
         "expand", option.value, <<>>)

\* expandGroup once findOption has answered
ExpandAt(s, p) == IF p = NoPath THEN s ELSE ExpandNode(s, p, NodeAt(s.optionData, p))

\* expandGroup(groupValue)
expandGroup(s, groupValue) ==
  IF ~s.config.nestedOptions THEN s ELSE ExpandAt(s, findOption(s.optionData, groupValue))

\* collapseGroup on the node findOption returned
CollapseNode(s, p, option) ==
  IF option.children = <<>> \/ ~option.expanded THEN s
  ELSE emitNamed(
         [s EXCEPT !.optionData = WithNode(@, p, [option EXCEPT !.expanded = FALSE]),
                   !.rendered = IF FirstIndex(@, option.value) = 0 THEN @
                                ELSE RemoveEach(@, ChildValues(option))],
         "collapse", option.value, <<>>)

\* collapseGroup once findOption has answered
CollapseAt(s, p) == IF p = NoPath THEN s ELSE CollapseNode(s, p, NodeAt(s.optionData, p))

\* collapseGroup(groupValue)
collapseGroup(s, groupValue) ==
  IF ~s.config.nestedOptions THEN s ELSE CollapseAt(s, findOption(s.optionData, groupValue))

\* MultiSelect.expandAll() / SingleSelect.expandAll()
ExpandAllGroups(s) ==
  IF ~s.config.nestedOptions THEN s
  ELSE renderOptions([s EXCEPT !.optionData = expandAll(@)], TRUE)

\* MultiSelect.collapseAll() / SingleSelect.collapseAll()
CollapseAllGroups(s) ==
  IF ~s.config.nestedOptions THEN s
  ELSE renderOptions([s EXCEPT !.optionData = collapseAll(@)], TRUE)

\* selectedValues.forEach(value => findOption(...).selected = true)
RECURSIVE MarkSelected(_, _)
MarkSelected(tree, values) ==
  IF values = <<>> THEN tree
  ELSE LET p == findOption(tree, Head(values))
       IN MarkSelected(IF p = NoPath THEN tree
                       ELSE WithNode(tree, p, [NodeAt(tree, p) EXCEPT !.selected = TRUE]),
                       Tail(values))

\* optionData.forEach(option => { if (option.children.length > 0)
\*   updateParentState(option, optionData) })
RECURSIVE UpdateGroups(_, _)
UpdateGroups(tree, k) ==
  IF k > Len(tree) THEN tree
  ELSE UpdateGroups(IF tree[k].children # <<>> THEN updateParentState(tree[k], tree) ELSE tree,
                    k + 1)

\* the tree parseOptions builds before it marks the selection
ParsedTree(dom, config) ==
  LET tree == parseSelectElement(dom, config.nestedOptions)
  IN IF config.nestedOptions /\ config.defaultExpanded THEN expandAll(tree) ELSE tree

\* MultiSelect.parseOptions once the tree is parsed and marked
ParsedMulti(s, values, tree) ==
  [s EXCEPT !.selectedValues = values,
            !.optionData = IF s.config.nestedOptions THEN UpdateGroups(tree, 1) ELSE tree]

\* MultiSelect.parseOptions()
MultiSelect_parseOptions(s) ==
  ParsedMulti(s, getSelectedValues(s.dom),
              MarkSelected(ParsedTree(s.dom, s.config), getSelectedValues(s.dom)))

\* SingleSelect.parseOptions()
SingleSelect_parseOptions(s) ==
  LET selected == getSelectedValues(s.dom)
      value == IF Len(selected) > 0 /\ selected[1] # <<>> THEN selected[1] ELSE NULL
  IN [s EXCEPT !.selectedValue = value,
               !.optionData = MarkSelected(ParsedTree(s.dom, s.config),
                                           IF Truthy(value) THEN <<value>> ELSE <<>>)]

parseOptions(s) ==
  IF s.kind = "multi" THEN MultiSelect_parseOptions(s) ELSE SingleSelect_parseOptions(s)

\* refresh(): filteredData keeps the nodes of the tree that is replaced
refresh(s) ==
  LET kept == IF s.filteredData.isNull \/ s.filteredData.old THEN s
              ELSE [s EXCEPT !.oldData = s.optionData, !.filteredData.old = TRUE]
  IN renderOptions(parseOptions(kept), FALSE)

\* disable()
disable(s) == close([s EXCEPT !.disabled = TRUE])

\* enable()
enable(s) == [s EXCEPT !.disabled = FALSE]

\* destroy(), but for the removal from the registry
destroy(s) == [s EXCEPT !.destroyed = TRUE]

(***************************************************************************)
(* Bounds and inputs                                                       *)
(***************************************************************************)

\* setTimeout(close) continuations that may be pending at once
MaxCloseTimers == 1

\* calls, gestures and timer expiries of one run
MaxSteps == 5

\* longest array passed to MultiSelect.setValue
MaxSetValueLen == 1

\* instances of the page with several widgets
FamilySize == 3

\* widgets constructed on a page that starts with none
MaxWidgets == 2

\* calls, gestures and timer expiries of one run of a lone single-select
MaxStepsDeselect == 6

\* calls and gestures of one run of searches
MaxStepsFilter == 4

\* DEFAULT_CONFIG of MultiSelect, the fields the model reads
MultiDefault ==
  [nestedOptions |-> FALSE, cascadeSelection |-> FALSE, allowDeselect |-> FALSE,
   closeOnSelect |-> FALSE, clearSearchOnClose |-> TRUE, expandOnSearch |-> TRUE,
   defaultExpanded |-> FALSE, closeOnOutsideClick |-> TRUE, searchDebounce |-> 300,
   searchStrategy |-> "contains", selectedDisplayMode |-> "count"]

\* DEFAULT_CONFIG of SingleSelect, the fields the model reads
SingleDefault ==
  [nestedOptions |-> FALSE, cascadeSelection |-> FALSE, allowDeselect |-> FALSE,
   closeOnSelect |-> TRUE, clearSearchOnClose |-> TRUE, expandOnSearch |-> TRUE,
   defaultExpanded |-> FALSE, closeOnOutsideClick |-> TRUE, searchDebounce |-> 300,
   searchStrategy |-> "contains", selectedDisplayMode |-> "count"]

\* the caller's overrides the model explores
MultiConfigs ==
  { [MultiDefault EXCEPT !.nestedOptions = TRUE, !.cascadeSelection = TRUE,
                         !.selectedDisplayMode = "tags", !.searchDebounce = 0],
    [MultiDefault EXCEPT !.nestedOptions = TRUE, !.defaultExpanded = TRUE],
    [MultiDefault EXCEPT !.selectedDisplayMode = "tags", !.clearSearchOnClose = FALSE,
                         !.searchDebounce = 0] }

SingleConfigs ==
  { [SingleDefault EXCEPT !.nestedOptions = TRUE, !.searchDebounce = 0],
    [SingleDefault EXCEPT !.allowDeselect = TRUE, !.closeOnSelect = FALSE],
    [SingleDefault EXCEPT !.closeOnOutsideClick = FALSE] }

\* <select> contents: a group of two options, the second disabled, and a
\* standalone option
GroupedSelect ==
  << OptGroup(<<"F">>, FALSE,
              << Option(<<"a">>, <<"A", "n">>, FALSE), Option(<<"b">>, <<"b">>, TRUE) >>),
     Option(<<"c">>, <<"c">>, FALSE) >>

Layouts == {GroupedSelect}

\* the select with exactly the options at the positions in `chosen` selected
Preselected(dom, chosen) ==
  [k \in DOMAIN dom |->
     IF dom[k].tagName = "OPTGROUP"
     THEN [dom[k] EXCEPT !.options =
             [j \in DOMAIN dom[k].options |->
                [dom[k].options[j] EXCEPT !.selected = (OptionsBefore(dom, k) + j \in chosen)]]]
     ELSE [dom[k] EXCEPT !.selected = (OptionsBefore(dom, k) + 1 \in chosen)]]

\* what the page marks selected before construction: nothing, or the first
\* option
Preselections(kind, dom) == {{}, {1}}

\* text typed into the search field
Queries == {<<"n">>, <<"b">>, <<"z">>, <<"F">>}

\* values a caller may pass: those of the nodes and one of no node
UnknownValue == <<"x">>

Candidates(s) ==
  LET nodes == flattenOptions(s.optionData)
  IN [k \in DOMAIN nodes |-> nodes[k].value] \o <<UnknownValue>>

\* arrays for MultiSelect.setValue: the candidates in any order, repeats
\* included
ValueLists(s) ==
  LET c == Range(Candidates(s))
  IN UNION {[1..n -> c] : n \in 0..MaxSetValueLen}

(***************************************************************************)
(* Construction                                                            *)
(***************************************************************************)

\* new MultiSelect(select, config) / new SingleSelect(select, config)
Construct(kind, config, dom) ==
  renderOptions(
    parseOptions(
      [kind |-> kind, config |-> config, dom |-> dom,
       optionData |-> <<>>, oldData |-> <<>>, selectedValues |-> <<>>,
       selectedValue |-> NULL, filteredData |-> NullFilter, searchQuery |-> <<>>,
       searchInput |-> <<>>, rendered |-> <<>>, focusedOptionIndex |-> -1,
       isOpen |-> FALSE, events |-> <<>>, closeTimers |-> 0, searchTimer |-> FALSE,
       disabled |-> FALSE, destroyed |-> FALSE, hung |-> FALSE, element |-> 0]),
    FALSE)

Instances(kind) ==
  UNION { UNION { { Construct(kind, config, Preselected(dom, chosen)) :
                      chosen \in Preselections(kind, dom) } :
                  dom \in Layouts } :
          config \in (IF kind = "multi" THEN MultiConfigs ELSE SingleConfigs) }

\* storeInstance(): the static `instances` set of the instance's class
Registered(I, kind) == {j \in DOMAIN I : I[j].kind = kind}

\* page: elements of the document a constructor may be pointed at. `hidden`
\* is style.display = 'none' with aria-hidden, set by hideOriginalSelect.
Element(tagName, multiple, options) ==
  [tagName |-> tagName, multiple |-> multiple, hidden |-> FALSE, options |-> options]

\* a <select multiple>, a <select> and a <div>
PageElements ==
  << Element("SELECT", TRUE, GroupedSelect),
     Element("SELECT", FALSE, GroupedSelect),
     Element("DIV", FALSE, <<>>) >>

\* a constructor that tests the tag name alone
AcceptsAnySelect(kind, target) ==
  target \in DOMAIN page /\ page[target].tagName = "SELECT"

\* the constructor's validation; target 0 is a selector that matches nothing
Accepts(kind, target) ==
  /\ target \in DOMAIN page
  /\ page[target].tagName = "SELECT"
  /\ IF kind = "multi" THEN page[target].multiple ELSE ~page[target].multiple

\* hideOriginalSelect()
Hidden(elements, k) ==
  [j \in DOMAIN elements |-> IF j = k THEN [elements[j] EXCEPT !.hidden = TRUE] ELSE elements[j]]

\* destroy(): this.selectElement.style.display = ''
Shown(elements, k) ==
  [j \in DOMAIN elements |-> IF j = k THEN [elements[j] EXCEPT !.hidden = FALSE] ELSE elements[j]]

\* lastOp: the step just taken, the instance it addressed (0: none), its
\* argument, and what getValue() of that instance returned before it
NoOp == [op |-> "new", i |-> 0, arg |-> <<>>, before |-> <<>>]

\* one widget of either class on the page
Init ==
  /\ \E kind \in {"multi", "single"} : \E s \in Instances(kind) : inst = <<s>>
  /\ msInstances = Registered(inst, "multi")
  /\ ssInstances = Registered(inst, "single")
  /\ lastOp = NoOp
  /\ steps = MaxSteps
  /\ page = <<>>

(***************************************************************************)
(* Steps: one call of the public API, one user gesture, or one timer       *)
(***************************************************************************)

\* steps: the calls, gestures and timer expiries the run may still take.
\* No handler is stuck: the page's single thread is free
Running == steps > 0 /\ \A j \in DOMAIN inst : ~inst[j].hung

\* the instance's elements are in the document and take user gestures
Mounted(i) == Running /\ ~inst[i].destroyed

\* the state every step starts from: the log of the previous step is dropped
Fresh == [j \in DOMAIN inst |-> [inst[j] EXCEPT !.events = <<>>]]

\* the registry open() walks
Registry(i) == IF inst[i].kind = "multi" THEN msInstances ELSE ssInstances

\* a selection may schedule one more close continuation
TimerRoom(i) == inst[i].closeTimers < MaxCloseTimers

Done(I, op, i, arg) ==
  /\ inst' = I
  /\ lastOp' = [op |-> op, i |-> i, arg |-> arg,
                before |-> IF i \in DOMAIN inst THEN Values(inst[i]) ELSE <<>>]
  /\ steps' = steps - 1
  /\ UNCHANGED <<msInstances, ssInstances, page>>

\* a mousedown on target's elements (0: on none): the document listener of
\* every other SingleSelect runs handleOutsideClick
MouseDown(I, target) ==
  [j \in DOMAIN I |->
     IF j # target /\ I[j].kind = "single" /\ ~I[j].destroyed
        /\ I[j].isOpen /\ I[j].config.closeOnOutsideClick
     THEN close(I[j]) ELSE I[j]]

\* a click that reaches the document: the document listener of every other
\* MultiSelect runs handleOutsideClick
ClickReachesDocument(I, target) ==
  [j \in DOMAIN I |->
     IF j # target /\ I[j].kind = "multi" /\ ~I[j].destroyed
        /\ I[j].isOpen /\ I[j].config.closeOnOutsideClick
     THEN close(I[j]) ELSE I[j]]

\* the values a call on instance i may name
Named(i) == Range(Candidates(inst[i]))

ApiOpen(i) == Mounted(i) /\ Done(open(Fresh, i, Registry(i)), "open", i, <<>>)

ApiClose(i) == Mounted(i) /\ Done([Fresh EXCEPT ![i] = close(@)], "close", i, <<>>)

ApiToggle(i) == Mounted(i) /\ Done(toggle(Fresh, i, Registry(i)), "toggle", i, <<>>)

TriggerClick(i) ==
  /\ Mounted(i) /\ ~inst[i].disabled
  /\ Done(ClickReachesDocument(toggle(MouseDown(Fresh, i), i, Registry(i)), i),
          "triggerClick", i, <<>>)

OutsideClick ==
  /\ Running
  /\ Done(ClickReachesDocument(MouseDown(Fresh, 0), 0), "outsideClick", 0, <<>>)

EscapeKey ==
  /\ Running
  /\ Done([j \in DOMAIN inst |->
             IF inst[j].destroyed THEN Fresh[j] ELSE handleEscapeKey(Fresh[j])],
          "Escape", 0, <<>>)

\* a click on the row of a rendered option, or on the expand icon of a
\* rendered group
ClickOn(i, value, action) ==
  /\ action = "expand" =>
       /\ inst[i].config.nestedOptions
       /\ findOption(inst[i].optionData, value) # NoPath
       /\ NodeAt(inst[i].optionData, findOption(inst[i].optionData, value)).children # <<>>
  /\ inst[i].kind = "single" /\ inst[i].config.closeOnSelect /\ action = "select"
       => TimerRoom(i)
  /\ Done([MouseDown(Fresh, i) EXCEPT ![i] = handleOptionsClick(@, value, action)],
          "click", i, <<value, <<action>>>>)

ClickOption(i) ==
  /\ Mounted(i) /\ inst[i].isOpen
  /\ \E value \in Range(inst[i].rendered) : ClickOn(i, value, "select")

ClickExpandIcon(i) ==
  /\ Mounted(i) /\ inst[i].isOpen
  /\ \E value \in Range(inst[i].rendered) : ClickOn(i, value, "expand")

\* a key pressed inside the dropdown of instance i
Key(i, key) ==
  /\ Mounted(i) /\ inst[i].isOpen
  /\ inst[i].kind = "single" /\ inst[i].config.closeOnSelect /\ key = "Enter" => TimerRoom(i)
  /\ Done([Fresh EXCEPT ![i] = handleKeyboardNav(@, key)], key, i, <<>>)

\* Tab moves the focus to the checkbox / radio of an enabled rendered option
FocusOption(i) ==
  /\ Mounted(i) /\ inst[i].isOpen
  /\ \E value \in Range(inst[i].rendered) :
       /\ findOption(inst[i].optionData, value) # NoPath
       /\ ~NodeAt(inst[i].optionData, findOption(inst[i].optionData, value)).disabled
       /\ Done([Fresh EXCEPT ![i] = handleFocusChange(@, value)], "focusOption", i, value)

\* Tab moves the focus to a footer button
FocusFooter(i) ==
  /\ Mounted(i) /\ inst[i].isOpen
  /\ Done([Fresh EXCEPT ![i] = handleFocusLeave(@)], "focusFooter", i, <<>>)

\* the user edits the search field: an 'input' event with the new text
TypeText(i, query) ==
  /\ Mounted(i) /\ inst[i].isOpen
  /\ query # inst[i].searchInput
  /\ Done([Fresh EXCEPT ![i] = searchHandler([@ EXCEPT !.searchInput = query])],
          "input", i, query)

TypeSearch(i) == \E query \in Queries \cup {<<>>} : TypeText(i, query)

\* the debounce timer of the search field fires
SearchTimerFires(i) ==
  /\ Running /\ inst[i].searchTimer
  /\ Done([Fresh EXCEPT ![i] = handleSearch([@ EXCEPT !.searchTimer = FALSE])],
          "searchTimer", i, <<>>)

\* a setTimeout(() => this.close(), 100) fires
CloseTimerFires(i) ==
  /\ Running /\ inst[i].closeTimers > 0
  /\ Done([Fresh EXCEPT ![i] = close([@ EXCEPT !.closeTimers = @ - 1])],
          "closeTimer", i, <<>>)

SetValueMulti(i) ==
  /\ Mounted(i) /\ inst[i].kind = "multi"
  /\ \E values \in ValueLists(inst[i]) :
       Done([Fresh EXCEPT ![i] = MultiSelect_setValue(@, values)], "setValue", i, values)

SetValueSingle(i) ==
  /\ Mounted(i) /\ inst[i].kind = "single"
  /\ inst[i].isOpen /\ inst[i].config.closeOnSelect => TimerRoom(i)
  /\ \E value \in Named(i) \cup {<<>>, NULL} :
       Done([Fresh EXCEPT ![i] = SingleSelect_setValue(@, value)], "setValue", i, value)

SelectAll(i) ==
  /\ Mounted(i) /\ inst[i].kind = "multi"
  /\ Done([Fresh EXCEPT ![i] = selectAll(@)], "selectAll", i, <<>>)

\* clearAll(), also from the footer's Clear All button
ClearAll(i) ==
  /\ Mounted(i) /\ inst[i].kind = "multi"
  /\ Done([Fresh EXCEPT ![i] = clearAll(@)], "clearAll", i, <<>>)

\* clear(), also from the footer's Clear button
Clear(i) ==
  /\ Mounted(i) /\ inst[i].kind = "single"
  /\ inst[i].isOpen /\ inst[i].config.closeOnSelect => TimerRoom(i)
  /\ Done([Fresh EXCEPT ![i] = clear(@)], "clear", i, <<>>)

\* a click on the close button of a tag in the trigger
TagRemove(i) ==
  /\ Mounted(i) /\ inst[i].kind = "multi"
  /\ \E value \in TagValues(inst[i]) :
       Done([MouseDown(Fresh, i) EXCEPT ![i] = handleTagRemove(@, value)], "tagRemove", i, value)

Refresh(i) == Mounted(i) /\ Done([Fresh EXCEPT ![i] = refresh(@)], "refresh", i, <<>>)

ExpandGroup(i) ==
  /\ Mounted(i)
  /\ \E value \in Named(i) :
       Done([Fresh EXCEPT ![i] = expandGroup(@, value)], "expandGroup", i, value)

CollapseGroup(i) ==
  /\ Mounted(i)
  /\ \E value \in Named(i) :
       Done([Fresh EXCEPT ![i] = collapseGroup(@, value)], "collapseGroup", i, value)

ExpandAll(i) == Mounted(i) /\ Done([Fresh EXCEPT ![i] = ExpandAllGroups(@)], "expandAll", i, <<>>)

CollapseAll(i) ==
  Mounted(i) /\ Done([Fresh EXCEPT ![i] = CollapseAllGroups(@)], "collapseAll", i, <<>>)

Disable(i) == Mounted(i) /\ Done([Fresh EXCEPT ![i] = disable(@)], "disable", i, <<>>)

Enable(i) == Mounted(i) /\ Done([Fresh EXCEPT ![i] = enable(@)], "enable", i, <<>>)

Destroy(i) ==
  /\ Mounted(i)
  /\ inst' = [Fresh EXCEPT ![i] = destroy(@)]
  /\ msInstances' = msInstances \ {i}
  /\ ssInstances' = ssInstances \ {i}
  /\ lastOp' = [op |-> "destroy", i |-> i, arg |-> <<>>, before |-> Values(inst[i])]
  /\ steps' = steps - 1
  /\ page' = Shown(page, inst[i].element)

\* new MultiSelect(target) / new SingleSelect(target) with the defaults of
\* the class: throws before init() when the validation fails (i = 0 in
\* lastOp), otherwise the instance is built and stored in its registry
NewWidget(kind, target) ==
  /\ Running /\ Len(inst) < MaxWidgets
  /\ steps' = steps - 1
  /\ IF Accepts(kind, target)
     THEN /\ inst' = Append(Fresh,
                       [Construct(kind, IF kind = "multi" THEN MultiDefault ELSE SingleDefault,
                                  page[target].options) EXCEPT !.element = target])
          /\ msInstances' = IF kind = "multi" THEN msInstances \cup {Len(inst) + 1}
                            ELSE msInstances
          /\ ssInstances' = IF kind = "single" THEN ssInstances \cup {Len(inst) + 1}
                            ELSE ssInstances
          /\ page' = Hidden(page, target)
          /\ lastOp' = [op |-> kind, i |-> Len(inst) + 1, arg |-> target, before |-> <<>>]
     ELSE /\ inst' = Fresh
          /\ UNCHANGED <<msInstances, ssInstances, page>>
          /\ lastOp' = [op |-> kind, i |-> 0, arg |-> target, before |-> <<>>]


Next ==
  \/ \E i \in DOMAIN inst : ApiOpen(i)
  \/ \E i \in DOMAIN inst : ApiClose(i)
  \/ \E i \in DOMAIN inst : ApiToggle(i)
  \/ \E i \in DOMAIN inst : TriggerClick(i)
  \/ OutsideClick
  \/ EscapeKey
  \/ \E i \in DOMAIN inst : ClickOption(i)
  \/ \E i \in DOMAIN inst : ClickExpandIcon(i)
  \/ \E i \in DOMAIN inst : FocusOption(i)
  \/ \E i \in DOMAIN inst : FocusFooter(i)
  \/ \E i \in DOMAIN inst : Key(i, "ArrowDown")
  \/ \E i \in DOMAIN inst : Key(i, "ArrowUp")
  \/ \E i \in DOMAIN inst : Key(i, "Home")
  \/ \E i \in DOMAIN inst : Key(i, "End")
  \/ \E i \in DOMAIN inst : Key(i, "Enter")
  \/ \E i \in DOMAIN inst : Key(i, "ArrowRight")
  \/ \E i \in DOMAIN inst : Key(i, "ArrowLeft")
  \/ \E i \in DOMAIN inst : TypeSearch(i)
  \/ \E i \in DOMAIN inst : SearchTimerFires(i)
  \/ \E i \in DOMAIN inst : CloseTimerFires(i)
  \/ \E i \in DOMAIN inst : SetValueMulti(i)
  \/ \E i \in DOMAIN inst : SetValueSingle(i)
  \/ \E i \in DOMAIN inst : SelectAll(i)
  \/ \E i \in DOMAIN inst : ClearAll(i)
  \/ \E i \in DOMAIN inst : Clear(i)
  \/ \E i \in DOMAIN inst : TagRemove(i)
  \/ \E i \in DOMAIN inst : Refresh(i)
  \/ \E i \in DOMAIN inst : ExpandGroup(i)
  \/ \E i \in DOMAIN inst : CollapseGroup(i)
  \/ \E i \in DOMAIN inst : ExpandAll(i)
  \/ \E i \in DOMAIN inst : CollapseAll(i)
  \/ \E i \in DOMAIN inst : Disable(i)
  \/ \E i \in DOMAIN inst : Enable(i)
  \/ \E i \in DOMAIN inst : Destroy(i)

Spec == Init /\ [][Next]_vars

\* a page with FamilySize widgets of either class, each over its own <select>
\* with the defaults of its class
FamilyMember(kind) ==
  Construct(kind, IF kind = "multi" THEN MultiDefault ELSE SingleDefault, GroupedSelect)

InitFamily ==
  /\ \E kinds \in [1..FamilySize -> {"multi", "single"}] :
       inst = [j \in 1..FamilySize |-> FamilyMember(kinds[j])]
  /\ msInstances = Registered(inst, "multi")
  /\ ssInstances = Registered(inst, "single")
  /\ lastOp = NoOp
  /\ steps = MaxSteps
  /\ page = <<>>

\* what opens, closes and removes the widgets of the page
NextFamily ==
  \/ \E i \in DOMAIN inst : ApiOpen(i)
  \/ \E i \in DOMAIN inst : ApiClose(i)
  \/ \E i \in DOMAIN inst : ApiToggle(i)
  \/ \E i \in DOMAIN inst : TriggerClick(i)
  \/ OutsideClick
  \/ EscapeKey
  \/ \E i \in DOMAIN inst : ClickOption(i)
  \/ \E i \in DOMAIN inst : CloseTimerFires(i)
  \/ \E i \in DOMAIN inst : Disable(i)
  \/ \E i \in DOMAIN inst : Enable(i)
  \/ \E i \in DOMAIN inst : Destroy(i)

SpecFamily == InitFamily /\ [][NextFamily]_vars

\* a lone single-select whose search is not debounced, with and without
\* allowDeselect
DeselectConfigs ==
  { [SingleDefault EXCEPT !.allowDeselect = TRUE, !.closeOnSelect = FALSE,
                          !.searchDebounce = 0],
    [SingleDefault EXCEPT !.closeOnSelect = FALSE, !.searchDebounce = 0] }

InitDeselect ==
  /\ \E config \in DeselectConfigs : \E chosen \in Preselections("single", GroupedSelect) :
       inst = <<Construct("single", config, Preselected(GroupedSelect, chosen))>>
  /\ msInstances = Registered(inst, "multi")
  /\ ssInstances = Registered(inst, "single")
  /\ lastOp = NoOp
  /\ steps = MaxStepsDeselect
  /\ page = <<>>

\* what selects, searches, moves the focus and rebuilds the tree
NextDeselect ==
  \/ \E i \in DOMAIN inst : ApiOpen(i)
  \/ \E i \in DOMAIN inst : ApiClose(i)
  \/ \E i \in DOMAIN inst : ClickOption(i)
  \/ \E i \in DOMAIN inst : FocusOption(i)
  \/ \E i \in DOMAIN inst : Key(i, "ArrowDown")
  \/ \E i \in DOMAIN inst : Key(i, "Enter")
  \/ \E i \in DOMAIN inst : TypeSearch(i)
  \/ \E i \in DOMAIN inst : SetValueSingle(i)
  \/ \E i \in DOMAIN inst : Clear(i)
  \/ \E i \in DOMAIN inst : Refresh(i)

SpecDeselect == InitDeselect /\ [][NextDeselect]_vars

\* a page with three elements and no widget yet
InitConstruct ==
  /\ inst = <<>>
  /\ msInstances = {}
  /\ ssInstances = {}
  /\ lastOp = NoOp
  /\ steps = MaxSteps
  /\ page = PageElements

\* construction, and what opens, closes and removes the widgets built
NextConstruct ==
  \/ \E target \in 0..Len(page) : NewWidget("multi", target)
  \/ \E target \in 0..Len(page) : NewWidget("single", target)
  \/ \E i \in DOMAIN inst : ApiOpen(i)
  \/ \E i \in DOMAIN inst : ApiClose(i)
  \/ \E i \in DOMAIN inst : Destroy(i)

SpecConstruct == InitConstruct /\ [][NextConstruct]_vars

\* three standalone options: Apple, Banana, Cherry
FruitSelect ==
  << Option(<<"1">>, <<"A", "p", "p", "l", "e">>, FALSE),
     Option(<<"2">>, <<"B", "a", "n", "a", "n", "a">>, FALSE),
     Option(<<"3">>, <<"C", "h", "e", "r", "r", "y">>, FALSE) >>

\* text typed into the search field of a run of searches
FilterQueries ==
  { <<"a", "n">>, <<" ", "A", "N", " ">>, <<"B", "a", "n", "a", "n", "a">>,
    <<"a">>, <<"F">>, <<" ">> }

\* either variant over the fruit or the grouped select, the search undebounced,
\* under each strategy, nested or flat, clearing the search on close or not
InitFilter ==
  /\ \E kind \in {"multi", "single"} : \E dom \in {FruitSelect, GroupedSelect} :
     \E strategy \in {"contains", "startsWith", "exact"} : \E nested, clears \in BOOLEAN :
       inst = << Construct(kind,
                           [(IF kind = "multi" THEN MultiDefault ELSE SingleDefault)
                              EXCEPT !.searchDebounce = 0, !.searchStrategy = strategy,
                                     !.nestedOptions = nested, !.clearSearchOnClose = clears],
                           dom) >>
  /\ msInstances = Registered(inst, "multi")
  /\ ssInstances = Registered(inst, "single")
  /\ lastOp = NoOp
  /\ steps = MaxStepsFilter
  /\ page = <<>>

NextFilter ==
  \/ \E i \in DOMAIN inst : ApiOpen(i)
  \/ \E i \in DOMAIN inst : ApiClose(i)
  \/ \E i \in DOMAIN inst : \E query \in FilterQueries \cup {<<>>} : TypeText(i, query)

SpecFilter == InitFilter /\ [][NextFilter]_vars

\* two optgroups with the same label
TwinGroups ==
  << OptGroup(<<"F">>, FALSE, << Option(<<"a">>, <<"A", "n">>, FALSE) >>),
     OptGroup(<<"F">>, FALSE, << Option(<<"c">>, <<"c">>, FALSE) >>) >>

\* an optgroup and a standalone option whose value is spelled like a group key
KeyClash ==
  << OptGroup(<<"F">>, FALSE, << Option(<<"a">>, <<"A", "n">>, FALSE) >>),
     Option(GroupKey(<<"F">>), <<"c">>, FALSE) >>

\* either variant, nested, over selects whose groups are parsed into nodes
InitParse ==
  /\ \E kind \in {"multi", "single"} : \E dom \in {GroupedSelect, TwinGroups, KeyClash} :
       inst = << Construct(kind,
                           [(IF kind = "multi" THEN MultiDefault ELSE SingleDefault)
                              EXCEPT !.nestedOptions = TRUE, !.searchDebounce = 0],
                           dom) >>
  /\ msInstances = Registered(inst, "multi")
  /\ ssInstances = Registered(inst, "single")
  /\ lastOp = NoOp
  /\ steps = MaxStepsFilter
  /\ page = <<>>

SpecParse == InitParse /\ [][NextFilter]_vars

(***************************************************************************)
(* Properties                                                              *)
(***************************************************************************)

\* nodes of a tree that are selected
SelectedNodes(tree) == {p \in Range(FlattenPaths(tree)) : NodeAt(tree, p).selected}

\* values of the leaves of a tree
LeafValues(tree) == {n.value : n \in Range(getLeafOptions(tree))}

\* what getValue() returns, as a set
Exported(s) ==
  IF s.kind = "multi" THEN Range(s.selectedValues)
  ELSE IF s.selectedValue = NULL THEN {} ELSE {s.selectedValue}

\* the steps that select directly, and the steps that may change the selection
SelectionOps == {"click", "Enter", "setValue", "selectAll"}

ChangeOps == SelectionOps \cup {"clearAll", "clear", "tagRemove", "refresh"}

\* the step just taken addressed instance i with operation op
Did(i, op) == lastOp'.i = i /\ lastOp'.op = op

\* nothing changed and nothing was emitted
Silent == inst' = Fresh /\ UNCHANGED <<msInstances, ssInstances, page>>

\* C1: in a nested multi-select every group is indeterminate exactly when
\* some but not all of its children are selected, and no group is
\* indeterminate and selected at once.
C1_GroupTriState ==
  \A i \in DOMAIN inst :
    (inst[i].kind = "multi" /\ inst[i].config.nestedOptions /\ ~inst[i].destroyed) =>
      \A k \in DOMAIN inst[i].optionData :
        LET g == inst[i].optionData[k]
        IN g.children # <<>> =>
             /\ g.indeterminate <=>
                  (0 < SelectedChildren(g) /\ SelectedChildren(g) < Len(g.children))
             /\ ~(g.indeterminate /\ g.selected)

\* C2: no direct selection (click, Enter, setValue, selectAll) turns the
\* selected flag of a disabled node from false to true.
C2_DisabledStaysUnselected ==
  [][\A i \in DOMAIN inst :
       (lastOp'.i = i /\ lastOp'.op \in SelectionOps) =>
         \A p \in Range(FlattenPaths(inst[i].optionData)) :
           (NodeAt(inst[i].optionData, p).disabled /\ ~NodeAt(inst[i].optionData, p).selected)
             => ~NodeAt(inst'[i].optionData, p).selected]_vars

C4_ValuesAreLeaves ==
  \A i \in DOMAIN inst :
    ~inst[i].destroyed => Exported(inst[i]) \subseteq LeafValues(inst[i].optionData)

\* C5: after every step that may change the selection, the options selected
\* on the native <select> are exactly the values getValue() returns.
C5_NativeMatchesValue ==
  \A i \in DOMAIN inst :
    (lastOp.i = i /\ lastOp.op \in ChangeOps) =>
      Range(getSelectedValues(inst[i].dom)) = Exported(inst[i])

\* C6: at most one live instance is open, whatever the classes of the
\* instances on the page.
C6_OneOpen ==
  Cardinality({i \in DOMAIN inst : ~inst[i].destroyed /\ inst[i].isOpen}) <= 1

\* C7: open() on an open instance and close() on a closed one change
\* nothing and emit nothing.
C7_RedundantOpenClose ==
  [][\A i \in DOMAIN inst :
       ((Did(i, "open") /\ inst[i].isOpen) \/ (Did(i, "close") /\ ~inst[i].isOpen))
         => Silent]_vars

\* open() has just been called on an instance that was open
C7_Witness ==
  \E i \in DOMAIN inst :
    lastOp.i = i /\ lastOp.op = "open" /\ inst[i].isOpen /\ inst[i].events = <<>>

\* the instance but for its trees, its drawn options and its event log
Frame(s) == [s EXCEPT !.optionData = <<>>, !.oldData = <<>>, !.rendered = <<>>, !.events = <<>>]

\* instance i flipped the group at r to `target`, emitted one event of that
\* name for that group, and nothing else changed
Flipped(i, r, target) ==
  LET s == inst[i]
      flipped == PutNode(s, r, [Deref(s, r) EXCEPT !.expanded = target])
  IN /\ inst'[i].optionData = flipped.optionData
     /\ inst'[i].oldData = flipped.oldData
     /\ Frame(inst'[i]) = Frame(s)
     /\ \A j \in DOMAIN inst : j # i => inst'[j] = Fresh[j]
     /\ Len(inst'[i].events) = 1
     /\ inst'[i].events[1].name = Prefixed(s, IF target THEN "expand" ELSE "collapse")
     /\ inst'[i].events[1].group = Deref(s, r).value
     /\ UNCHANGED <<msInstances, ssInstances>>

\* expandGroup / collapseGroup of value v on instance i
GroupCall(i, v, target) ==
  LET s == inst[i]
      p == findOption(s.optionData, v)
  IN IF ~s.config.nestedOptions \/ p = NoPath THEN Silent
     ELSE IF NodeAt(s.optionData, p).children = <<>>
             \/ NodeAt(s.optionData, p).expanded = target THEN Silent
     ELSE Flipped(i, Ref(FALSE, p), target)

\* ArrowRight / ArrowLeft on instance i
ArrowOnGroup(i, target) ==
  LET s == inst[i]
      visible == getVisibleOptions(s)
  IN IF ~s.isOpen \/ ~s.config.nestedOptions \/ ~HasFocused(s, visible) THEN Silent
     ELSE IF Focused(s, visible).children = <<>>
             \/ Focused(s, visible).expanded = target THEN Silent
     ELSE Flipped(i, visible[s.focusedOptionIndex + 1], target)

\* C8: expandGroup, collapseGroup, ArrowRight and ArrowLeft on a leaf, on an
\* unknown value or on a group already in the target state change nothing
\* and emit nothing; otherwise they flip that group alone and emit one event
\* that names it.
C8_GroupToggle ==
  [][\A i \in DOMAIN inst :
       /\ Did(i, "expandGroup") => GroupCall(i, lastOp'.arg, TRUE)
       /\ Did(i, "collapseGroup") => GroupCall(i, lastOp'.arg, FALSE)
       /\ Did(i, "ArrowRight") => ArrowOnGroup(i, TRUE)
       /\ Did(i, "ArrowLeft") => ArrowOnGroup(i, FALSE)]_vars

\* ArrowRight has just expanded the focused group
C8_Witness ==
  \E i \in DOMAIN inst :
    /\ lastOp.i = i /\ lastOp.op = "ArrowRight"
    /\ Len(inst[i].events) = 1
    /\ inst[i].events[1].name = Prefixed(inst[i], "expand")
    /\ inst[i].events[1].group = GroupKey(<<"F">>)

\* v is the value of no node, or of a disabled one
Unselectable(s, v) ==
  LET p == findOption(s.optionData, v)
  IN IF p = NoPath THEN TRUE ELSE NodeAt(s.optionData, p).disabled

\* C9: setValue of an unknown value or of the value of a disabled node
\* changes nothing (value, flags, native control) and emits nothing.
C9_SetValueIgnored ==
  [][\A i \in DOMAIN inst :
       (/\ Did(i, "setValue")
        /\ IF inst[i].kind = "multi"
           THEN Len(lastOp'.arg) = 1 /\ Unselectable(inst[i], lastOp'.arg[1])
           ELSE lastOp'.arg \notin {<<>>, NULL} /\ Unselectable(inst[i], lastOp'.arg))
         => Silent]_vars

\* indices (from 0) of the visible nodes that are enabled
EnabledIndices(s, visible) ==
  {k \in 0..(Len(visible) - 1) : ~Deref(s, visible[k + 1]).disabled}

\* the enabled index that follows f cyclically among n (the first one when
\* nothing is focused)
NextEnabled(E, f, n) ==
  CHOOSE k \in E : \A j \in E : ((k - f - 1) % n) <= ((j - f - 1) % n)

\* the enabled index that precedes f cyclically among n (the last one when
\* nothing is focused)
PrevEnabled(E, f, n) ==
  LET from == IF f < 0 THEN n ELSE f
  IN CHOOSE k \in E : \A j \in E : ((from - k - 1) % n) <= ((from - j - 1) % n)

\* C10: while the panel is open and a visible node is enabled, ArrowDown
\* focuses the next enabled visible node cyclically and ArrowUp the previous
\* one; the focused node is never disabled.
C10_ArrowsFocusEnabled ==
  [][\A i \in DOMAIN inst :
       LET s == inst[i]
           visible == getVisibleOptions(s)
           E == EnabledIndices(s, visible)
       IN (s.isOpen /\ E # {}) =>
            /\ Did(i, "ArrowDown") =>
                 inst'[i].focusedOptionIndex = NextEnabled(E, s.focusedOptionIndex, Len(visible))
            /\ Did(i, "ArrowUp") =>
                 inst'[i].focusedOptionIndex = PrevEnabled(E, s.focusedOptionIndex, Len(visible))]_vars

\* C11: ArrowDown and ArrowUp return for every visible list and every
\* focusedOptionIndex, and when every visible node is disabled they leave
\* focusedOptionIndex as it was.
C11_ArrowsTerminate ==
  [][\A i \in DOMAIN inst :
       (Did(i, "ArrowDown") \/ Did(i, "ArrowUp")) =>
         /\ ~inst'[i].hung
         /\ (/\ getVisibleOptions(inst[i]) # <<>>
             /\ EnabledIndices(inst[i], getVisibleOptions(inst[i])) = {})
              => inst'[i].focusedOptionIndex = inst[i].focusedOptionIndex]_vars

\* an Escape press on instance i while it is open with text in its search
\* field
EscapeOnSearch(i) ==
  lastOp'.op = "Escape" /\ ~inst[i].destroyed /\ inst[i].isOpen /\ inst[i].searchInput # <<>>

\* an Escape press on instance i while it is open with an empty search field
EscapeOnEmpty(i) ==
  lastOp'.op = "Escape" /\ ~inst[i].destroyed /\ inst[i].isOpen /\ inst[i].searchInput = <<>>

EmitsChange(i) ==
  \E k \in DOMAIN inst'[i].events : inst'[i].events[k].name = <<"change">>

\* the step was a click on an option row, Enter or setValue on instance i
Activation(i) ==
  /\ lastOp'.i = i
  /\ \/ lastOp'.op \in {"Enter", "setValue"}
     \/ lastOp'.op = "click" /\ lastOp'.arg[2] = <<"select">>

\* C13: in a single-select with closeOnSelect, a selection made while the
\* panel is open leaves it open and schedules one close, and the panel is
\* closed when that continuation has run; without closeOnSelect a selection
\* neither changes isOpen nor schedules anything.
C13_DeferredClose ==
  [][\A i \in DOMAIN inst :
       inst[i].kind = "single" =>
         /\ (Activation(i) /\ EmitsChange(i) /\ inst[i].isOpen /\ inst[i].config.closeOnSelect)
              => /\ inst'[i].isOpen
                 /\ inst'[i].closeTimers = inst[i].closeTimers + 1
         /\ (Activation(i) /\ ~inst[i].config.closeOnSelect)
              => /\ inst'[i].isOpen = inst[i].isOpen
                 /\ inst'[i].closeTimers = inst[i].closeTimers
         /\ Did(i, "closeTimer")
              => /\ ~inst'[i].isOpen
                 /\ inst'[i].closeTimers = inst[i].closeTimers - 1]_vars

\* the deferred close of a single-select has just run and closed the panel
C13_Witness ==
  \E i \in DOMAIN inst :
    /\ inst[i].kind = "single" /\ lastOp.i = i /\ lastOp.op = "closeTimer"
    /\ ~inst[i].isOpen
    /\ \E k \in DOMAIN inst[i].events : inst[i].events[k].name = Prefixed(inst[i], "close")

\* the search events instance i emitted in the step
SearchEvents(i) ==
  {k \in DOMAIN inst'[i].events : inst'[i].events[k].name = Prefixed(inst[i], "search")}

\* C14: with a debounce, an input event runs no filtering pass and leaves one
\* pass pending, and the pass that runs when the timer fires is one pass
\* (one search event) over the text the field holds then; with no debounce
\* each input event runs its pass at once over the text typed.
C14_Debounce ==
  [][\A i \in DOMAIN inst :
       /\ (Did(i, "input") /\ inst[i].config.searchDebounce > 0) =>
            /\ SearchEvents(i) = {}
            /\ inst'[i].searchTimer
            /\ inst'[i].searchInput = lastOp'.arg
            /\ inst'[i].searchQuery = inst[i].searchQuery
            /\ inst'[i].filteredData = inst[i].filteredData
       /\ Did(i, "searchTimer") =>
            /\ Cardinality(SearchEvents(i)) = 1
            /\ ~inst'[i].searchTimer
            /\ inst'[i].searchQuery = inst[i].searchInput
            /\ inst'[i].filteredData.isNull <=> (inst[i].searchInput = <<>>)
       /\ (Did(i, "input") /\ inst[i].config.searchDebounce = 0) =>
            /\ Cardinality(SearchEvents(i)) = 1
            /\ inst'[i].searchTimer = inst[i].searchTimer
            /\ inst'[i].searchQuery = lastOp'.arg
            /\ inst'[i].filteredData.isNull <=> (lastOp'.arg = <<>>)]_vars

\* a second input event of a burst: the field was emptied again while the
\* pass of the text typed before it is still pending and no pass has run
C14_Witness ==
  \E i \in DOMAIN inst :
    /\ lastOp.i = i /\ lastOp.op = "input" /\ lastOp.arg = <<>>
    /\ inst[i].config.searchDebounce > 0 /\ inst[i].config.clearSearchOnClose
    /\ inst[i].isOpen /\ inst[i].searchTimer
    /\ inst[i].searchQuery = <<>> /\ inst[i].filteredData.isNull

\* C15: a debounced search pass or a deferred close that runs after
\* destroy() changes neither isOpen, searchQuery, the filter nor
\* focusedOptionIndex of the destroyed instance, and emits nothing.
C15_NoContinuationAfterDestroy ==
  [][\A i \in DOMAIN inst :
       (inst[i].destroyed /\ (Did(i, "searchTimer") \/ Did(i, "closeTimer"))) =>
         /\ inst'[i].isOpen = inst[i].isOpen
         /\ inst'[i].searchQuery = inst[i].searchQuery
         /\ inst'[i].filteredData = inst[i].filteredData
         /\ inst'[i].focusedOptionIndex = inst[i].focusedOptionIndex
         /\ inst'[i].events = <<>>]_vars

\* the step activated, on single-select i, the value it held selected
ActivatesSelected(i) ==
  /\ inst[i].kind = "single" /\ inst[i].selectedValue # NULL
  /\ lastOp'.i = i
  /\ \/ lastOp'.op = "setValue" /\ lastOp'.arg = inst[i].selectedValue
     \/ /\ lastOp'.op = "click" /\ lastOp'.arg = <<inst[i].selectedValue, <<"select">>>>
        /\ findOption(inst[i].optionData, inst[i].selectedValue) # NoPath
        /\ ~NodeAt(inst[i].optionData,
                   findOption(inst[i].optionData, inst[i].selectedValue)).disabled
     \/ /\ lastOp'.op = "Enter"
        /\ HasFocused(inst[i], getVisibleOptions(inst[i]))
        /\ Focused(inst[i], getVisibleOptions(inst[i])).value = inst[i].selectedValue
        /\ ~Focused(inst[i], getVisibleOptions(inst[i])).disabled

\* C16: activating the selected value of a single-select by click, Enter or
\* setValue leaves no selection when allowDeselect is set, and leaves that
\* value selected when it is not.
C16_AllowDeselect ==
  [][\A i \in DOMAIN inst :
       ActivatesSelected(i) =>
         IF inst[i].config.allowDeselect
         THEN inst'[i].selectedValue = NULL /\ SelectedNodes(inst'[i].optionData) = {}
         ELSE inst'[i].selectedValue = inst[i].selectedValue]_vars

\* C17: setValue, an option activation, clear or clearAll after which
\* getValue() returns what it returned before emits no change event.
C17_ChangeOnlyOnChange ==
  [][\A i \in DOMAIN inst :
       (/\ lastOp'.i = i
        /\ lastOp'.op \in {"setValue", "click", "Enter", "clear", "clearAll"}
        /\ Values(inst'[i]) = Values(inst[i]))
         => ~EmitsChange(i)]_vars

\* instance s holds a selection
HasSelection(s) ==
  IF s.kind = "multi" THEN s.selectedValues # <<>> ELSE s.selectedValue # NULL

\* what getValue() returns when nothing is selected
NoValues(s) == IF s.kind = "multi" THEN <<>> ELSE <<NULL>>

\* C18: clear() / clearAll() on an instance with a selection emits a change
\* event carrying the empty selection and then one clear event carrying the
\* selection held before, and nothing else; clear() on a single-select with
\* no selection changes nothing and emits nothing.
C18_ClearEvents ==
  [][\A i \in DOMAIN inst :
       (Did(i, "clear") \/ Did(i, "clearAll")) =>
         IF HasSelection(inst[i])
         THEN /\ Len(inst'[i].events) = 2
              /\ inst'[i].events[1].name = <<"change">>
              /\ inst'[i].events[1].values = NoValues(inst[i])
              /\ inst'[i].events[2].name = Prefixed(inst[i], "clear")
              /\ inst'[i].events[2].values = NoValues(inst[i])
              /\ inst'[i].events[2].previousValues = Values(inst[i])
              /\ Values(inst'[i]) = NoValues(inst[i])
         ELSE inst[i].kind = "single" => Silent]_vars

\* clearAll() has just cleared a selection of a multi-select
C18_Witness ==
  \E i \in DOMAIN inst :
    /\ lastOp.i = i /\ lastOp.op = "clearAll" /\ lastOp.before # <<>>
    /\ Len(inst[i].events) = 2
    /\ inst[i].events[2].previousValues = lastOp.before
    /\ inst[i].selectedValues = <<>>

\* C19: a constructor pointed at a selector that matches nothing, at an
\* element that is not a select, or at a select of the wrong multiplicity
\* throws, adds no instance to a registry and leaves the elements as they were.
C19_FailedConstruction ==
  [][\A kind \in {"multi", "single"} : \A target \in 0..Len(page) :
       (/\ lastOp'.op = kind /\ lastOp'.arg = target
        /\ \/ target = 0
           \/ page[target].tagName # "SELECT"
           \/ page[target].multiple # (kind = "multi"))
         => /\ lastOp'.i = 0
            /\ inst' = Fresh
            /\ UNCHANGED <<msInstances, ssInstances, page>>]_vars

\* new SingleSelect over the <select multiple> has just thrown on a page
\* that already holds a widget
C19_Witness ==
  /\ lastOp.op = "single" /\ lastOp.i = 0
  /\ lastOp.arg \in DOMAIN page /\ page[lastOp.arg].tagName = "SELECT"
  /\ page[lastOp.arg].multiple
  /\ Len(inst) = 1

\* the expanded flag of every node of the tree
ExpandedFlags(tree) ==
  [k \in DOMAIN tree |->
     <<tree[k].expanded, [j \in DOMAIN tree[k].children |-> tree[k].children[j].expanded]>>]

\* the step is a search pass of instance i over an empty search field, taken
\* while the applied query is not empty
EmptyQueryPass(i) ==
  /\ lastOp'.i = i
  /\ inst[i].searchQuery # <<>>
  /\ \/ lastOp'.op = "input" /\ lastOp'.arg = <<>> /\ inst[i].config.searchDebounce = 0
     \/ lastOp'.op = "searchTimer" /\ inst[i].searchInput = <<>>

\* the values of the view drawn from the whole tree, no filter applied
UnfilteredValues(s) ==
  [k \in DOMAIN WithChildren(s, TopRefs(s, FALSE), 1) |->
     Deref(s, WithChildren(s, TopRefs(s, FALSE), 1)[k]).value]

\* C20: a pass over the empty query that follows a non-empty one leaves the
\* filter null (not a list of every node), so what is drawn and what is visible
\* are the values of the unfiltered tree, and no node's expanded flag changes.
C20_EmptyQueryClearsFilter ==
  [][\A i \in DOMAIN inst :
       EmptyQueryPass(i)
         => /\ inst'[i].filteredData = NullFilter
            /\ inst'[i].searchQuery = <<>>
            /\ inst'[i].rendered = UnfilteredValues(inst'[i])
            /\ [k \in DOMAIN getVisibleOptions(inst'[i]) |->
                  Deref(inst'[i], getVisibleOptions(inst'[i])[k]).value]
                 = UnfilteredValues(inst'[i])
            /\ ExpandedFlags(inst'[i].optionData) = ExpandedFlags(inst[i].optionData)]_vars

\* the search field of an undebounced widget whose groups start collapsed has
\* just been emptied: the filter is null and a group is drawn expanded
C20_Witness ==
  /\ lastOp.op = "input" /\ lastOp.arg = <<>> /\ lastOp.i \in DOMAIN inst
  /\ inst[lastOp.i].config.searchDebounce = 0 /\ ~inst[lastOp.i].config.defaultExpanded
  /\ inst[lastOp.i].searchQuery = <<>> /\ inst[lastOp.i].filteredData.isNull
  /\ \E k \in DOMAIN inst[lastOp.i].optionData : inst[lastOp.i].optionData[k].expanded
  /\ Len(inst[lastOp.i].rendered) > Len(inst[lastOp.i].optionData)

\* the step runs handleOptionClick of multi-select i: a click on the row of an
\* enabled node, or Enter on a focused enabled node
Toggles(i) ==
  /\ lastOp'.i = i /\ inst[i].kind = "multi"
  /\ \/ /\ lastOp'.op = "click" /\ lastOp'.arg[2] = <<"select">>
        /\ findOption(inst[i].optionData, lastOp'.arg[1]) # NoPath
        /\ ~NodeAt(inst[i].optionData, findOption(inst[i].optionData, lastOp'.arg[1])).disabled
     \/ /\ lastOp'.op = "Enter"
        /\ HasFocused(inst[i], getVisibleOptions(inst[i]))
        /\ ~Focused(inst[i], getVisibleOptions(inst[i])).disabled

\* the node object that handler is handed
ToggledRef(i) ==
  IF lastOp'.op = "click" THEN Ref(FALSE, findOption(inst[i].optionData, lastOp'.arg[1]))
  ELSE getVisibleOptions(inst[i])[inst[i].focusedOptionIndex + 1]

\* the tri-state of a group agrees with the count of its selected children
TriState(g) ==
  /\ (0 < SelectedChildren(g) /\ SelectedChildren(g) < Len(g.children))
       => (g.indeterminate /\ ~g.selected)
  /\ SelectedChildren(g) = Len(g.children) => (g.selected /\ ~g.indeterminate)
  /\ SelectedChildren(g) = 0 => (~g.selected /\ ~g.indeterminate)

CascadesGroup(i) ==
  /\ Toggles(i)
  /\ inst[i].config.nestedOptions /\ inst[i].config.cascadeSelection
  /\ Deref(inst[i], ToggledRef(i)).children # <<>>

\* C22: the cascade select and the cascade deselect of a group leave the
\* selected flag of every disabled child as it was.
C22_CascadeSkipsDisabled ==
  [][\A i \in DOMAIN inst :
       CascadesGroup(i)
         => \A j \in DOMAIN Deref(inst[i], ToggledRef(i)).children :
              Deref(inst[i], ToggledRef(i)).children[j].disabled
                => Deref(inst'[i], ToggledRef(i)).children[j].selected
                     = Deref(inst[i], ToggledRef(i)).children[j].selected]_vars

\* some but not all children of the group are selected, and it is flagged so
Partial(g) ==
  /\ g.indeterminate
  /\ 0 < SelectedChildren(g) /\ SelectedChildren(g) < Len(g.children)

\* C23: with cascade enabled, activating an indeterminate group leaves every
\* child selected and the group selected and not indeterminate.
C23_IndeterminateGoesFull ==
  [][\A i \in DOMAIN inst :
       (CascadesGroup(i) /\ Partial(Deref(inst[i], ToggledRef(i))))
         => /\ SelectedChildren(Deref(inst'[i], ToggledRef(i)))
                 = Len(Deref(inst'[i], ToggledRef(i)).children)
            /\ Deref(inst'[i], ToggledRef(i)).selected
            /\ ~Deref(inst'[i], ToggledRef(i)).indeterminate]_vars

\* every child of the node has selected = flag
ChildrenAll(n, flag) == \A j \in DOMAIN n.children : n.children[j].selected = flag

\* the node but for its own selected and indeterminate flags
OwnFlagsApart(n) == [n EXCEPT !.selected = FALSE, !.indeterminate = FALSE]

\* the nodes of the tree other than those at p and at the path of p's parent
\* are the same in both trees (a group is compared without its children)
SameElsewhere(before, after, p) ==
  /\ FlattenPaths(after) = FlattenPaths(before)
  /\ \A k \in DOMAIN FlattenPaths(before) :
       LET q == FlattenPaths(before)[k]
       IN (q # p /\ q # <<p[1]>>)
            => [NodeAt(after, q) EXCEPT !.children = <<>>]
                 = [NodeAt(before, q) EXCEPT !.children = <<>>]

\* C24: the cascading select of a group leaves it and every child selected
\* and the group not indeterminate; the cascading deselect leaves them all
\* unselected and the group not indeterminate; without cascade only the
\* target's own flags and the state of its parent change.
C24_SelectDeselect ==
  [][\A i \in DOMAIN inst :
       /\ (CascadesGroup(i) /\ ~Deref(inst[i], ToggledRef(i)).selected)
            => /\ Deref(inst'[i], ToggledRef(i)).selected
               /\ ChildrenAll(Deref(inst'[i], ToggledRef(i)), TRUE)
               /\ ~Deref(inst'[i], ToggledRef(i)).indeterminate
       /\ (CascadesGroup(i) /\ Deref(inst[i], ToggledRef(i)).selected)
            => /\ ~Deref(inst'[i], ToggledRef(i)).selected
               /\ ChildrenAll(Deref(inst'[i], ToggledRef(i)), FALSE)
               /\ ~Deref(inst'[i], ToggledRef(i)).indeterminate
       /\ (/\ Toggles(i) /\ ~ToggledRef(i).old
           /\ ~(inst[i].config.nestedOptions /\ inst[i].config.cascadeSelection))
            => /\ SameElsewhere(inst[i].optionData, inst'[i].optionData, ToggledRef(i).path)
               /\ OwnFlagsApart([NodeAt(inst'[i].optionData, ToggledRef(i).path)
                                   EXCEPT !.children = <<>>])
                    = OwnFlagsApart([NodeAt(inst[i].optionData, ToggledRef(i).path)
                                       EXCEPT !.children = <<>>])]_vars

\* C25: whenever a closed panel becomes open, focusedOptionIndex is -1 at the
\* end of the step, whatever focus, filter or selection the session before left.
C25_OpenResetsFocus ==
  [][\A i \in DOMAIN inst :
       (i \in DOMAIN inst' /\ ~inst[i].isOpen /\ inst'[i].isOpen)
         => inst'[i].focusedOptionIndex = -1]_vars

\* the panel has just been reopened over the filter and the selection that
\* the session before left
C25_Witness ==
  /\ lastOp.op \in {"open", "toggle", "triggerClick"} /\ lastOp.i \in DOMAIN inst
  /\ inst[lastOp.i].isOpen
  /\ ~inst[lastOp.i].filteredData.isNull
  /\ inst[lastOp.i].searchQuery # <<>>
  /\ Values(inst[lastOp.i]) # <<>>
  /\ inst[lastOp.i].focusedOptionIndex = -1

\* the step is a search pass of instance i over a non-empty search field
FilterPass(i) ==
  /\ lastOp'.i = i
  /\ \/ lastOp'.op = "input" /\ lastOp'.arg # <<>> /\ inst[i].config.searchDebounce = 0
     \/ lastOp'.op = "searchTimer" /\ inst[i].searchInput # <<>>

\* the text that pass reads from the search field
PassQuery(i) == IF lastOp'.op = "input" THEN lastOp'.arg ELSE inst[i].searchInput

\* a group whose own label does not match the query while a child's does
MatchesByChildOnly(s, n, query) ==
  /\ n.children # <<>>
  /\ ~searchMatch(n.text, query, s.config.searchStrategy)
  /\ \E j \in DOMAIN n.children : searchMatch(n.children[j].text, query, s.config.searchStrategy)

\* C26: a filtering pass changes the expanded flag of a node only to set it
\* on a group retained because of a child alone, and only when expandOnSearch
\* is configured; leaves, groups that match by their own label and groups that
\* are not retained keep their flag.
C26_ExpandOnSearchFrame ==
  [][\A i \in DOMAIN inst :
       FilterPass(i)
         => \A k \in DOMAIN inst[i].optionData :
              /\ inst'[i].optionData[k].expanded # inst[i].optionData[k].expanded
                   => /\ inst'[i].optionData[k].expanded
                      /\ inst[i].config.expandOnSearch
                      /\ MatchesByChildOnly(inst[i], inst[i].optionData[k], PassQuery(i))
              /\ \A j \in DOMAIN inst[i].optionData[k].children :
                   inst'[i].optionData[k].children[j].expanded
                     = inst[i].optionData[k].children[j].expanded]_vars

\* the texts of the top-level nodes of the tree
TopTexts(tree) == [k \in DOMAIN tree |-> tree[k].text]

\* the values of the nodes the filter retains, in the order of the list
Retained(s) ==
  [k \in DOMAIN s.filteredData.items |->
     Deref(s, Ref(s.filteredData.old, <<s.filteredData.items[k]>>)).value]

\* C27: a pass over a non-empty query leaves in filteredData, in the order of
\* the tree, exactly the top-level nodes whose own text matches or one of
\* whose children's does; over Apple, Banana, Cherry the query "an" under the
\* contains strategy retains Banana alone.
C27_FilterRetains ==
  [][\A i \in DOMAIN inst :
       FilterPass(i)
         => /\ ~inst'[i].filteredData.isNull
            /\ \A a, b \in DOMAIN inst'[i].filteredData.items :
                 a < b => inst'[i].filteredData.items[a] < inst'[i].filteredData.items[b]
            /\ \A k \in DOMAIN inst[i].optionData :
                 k \in Range(inst'[i].filteredData.items)
                   <=> \/ searchMatch(inst[i].optionData[k].text, PassQuery(i),
                                      inst[i].config.searchStrategy)
                       \/ \E j \in DOMAIN inst[i].optionData[k].children :
                            searchMatch(inst[i].optionData[k].children[j].text, PassQuery(i),
                                        inst[i].config.searchStrategy)
            /\ (/\ TopTexts(inst[i].optionData) = TopTexts(parseFlatOptions(FruitSelect))
                /\ PassQuery(i) = <<"a", "n">>
                /\ inst[i].config.searchStrategy = "contains")
                 => Retained(inst'[i]) = << <<"2">> >>]_vars

\* "an" has just been typed over Apple, Banana, Cherry under the contains
\* strategy, and Banana alone is retained
C27_Witness ==
  /\ lastOp.op = "input" /\ lastOp.arg = <<"a", "n">> /\ lastOp.i \in DOMAIN inst
  /\ TopTexts(inst[lastOp.i].optionData) = TopTexts(parseFlatOptions(FruitSelect))
  /\ inst[lastOp.i].config.searchStrategy = "contains"
  /\ ~inst[lastOp.i].filteredData.isNull
  /\ Retained(inst[lastOp.i]) = << <<"2">> >>

\* "an" has just been typed over a tree whose group F does not match by its
\* label while its child An does: the group is retained
C27_GroupWitness ==
  /\ lastOp.op = "input" /\ lastOp.arg = <<"a", "n">> /\ lastOp.i \in DOMAIN inst
  /\ inst[lastOp.i].config.nestedOptions
  /\ ~inst[lastOp.i].filteredData.isNull
  /\ Retained(inst[lastOp.i]) = << GroupKey(<<"F">>) >>

\* the lower-case form of the letters the labels and queries are written in
LowerCase ==
  [c \in {"A", "B", "C", "F", "N"} |->
     CASE c = "A" -> "a" [] c = "B" -> "b" [] c = "C" -> "c" [] c = "F" -> "f" [] OTHER -> "n"]

\* the text in lower case, from its first to its last character that is not a space
Normal(t) ==
  LET low == [k \in DOMAIN t |-> IF t[k] \in DOMAIN LowerCase THEN LowerCase[t[k]] ELSE t[k]]
      inked == {k \in DOMAIN t : t[k] # " "}
  IN IF inked = {} THEN <<>>
     ELSE [k \in 1..(1 + (CHOOSE b \in inked : \A x \in inked : x <= b)
                       - (CHOOSE a \in inked : \A x \in inked : a <= x)) |->
             low[k - 1 + (CHOOSE a \in inked : \A x \in inked : a <= x)]]

\* q occurs in t at offset k
OccursAt(t, q, k) == k + Len(q) <= Len(t) /\ \A j \in DOMAIN q : t[k + j] = q[j]

\* what a match means under each strategy, on normal forms
Matches(label, query, strategy) ==
  \/ query = <<>>
  \/ strategy = "contains" /\ \E k \in 0..Len(label) : OccursAt(Normal(label), Normal(query), k)
  \/ strategy = "startsWith" /\ OccursAt(Normal(label), Normal(query), 0)
  \/ strategy = "exact" /\ Normal(label) = Normal(query)

\* C28: the empty query matches every label; any other query matches a label
\* exactly when, both in lower case and trimmed, the label contains it, starts
\* with it or equals it, as the strategy says.
C28_SearchMatch ==
  [][\A i \in DOMAIN inst :
       /\ \A k \in DOMAIN inst[i].optionData :
            \A strategy \in {"contains", "startsWith", "exact"} :
              /\ searchMatch(inst[i].optionData[k].text, <<>>, strategy)
              /\ searchMatch(inst[i].optionData[k].text, inst[i].searchInput, strategy)
                   <=> Matches(inst[i].optionData[k].text, inst[i].searchInput, strategy)
       /\ FilterPass(i)
            => \A k \in DOMAIN inst[i].optionData :
                 inst[i].optionData[k].children = <<>>
                   => (k \in Range(inst'[i].filteredData.items)
                         <=> Matches(inst[i].optionData[k].text, PassQuery(i),
                                     inst[i].config.searchStrategy))]_vars

\* " AN " has just been typed over Apple, Banana, Cherry under the contains
\* strategy: Banana, which holds "an" once both are normalised, is retained
C28_Witness ==
  /\ lastOp.op = "input" /\ lastOp.arg = <<" ", "A", "N", " ">> /\ lastOp.i \in DOMAIN inst
  /\ TopTexts(inst[lastOp.i].optionData) = TopTexts(parseFlatOptions(FruitSelect))
  /\ inst[lastOp.i].config.searchStrategy = "contains"
  /\ ~inst[lastOp.i].filteredData.isNull
  /\ Retained(inst[lastOp.i]) = << <<"2">> >>

\* C29: in a tree parsed with grouping the values of the nodes are pairwise
\* distinct, so findOption on the value of a node answers that node.
C29_ValuesDistinct ==
  \A i \in DOMAIN inst :
    inst[i].config.nestedOptions
      => \A k \in DOMAIN FlattenPaths(inst[i].optionData) :
           findOption(inst[i].optionData,
                      NodeAt(inst[i].optionData, FlattenPaths(inst[i].optionData)[k]).value)
             = FlattenPaths(inst[i].optionData)[k]

\* C30: a step that closes the panel empties the search query and sets the
\* filter to null when clearSearchOnClose is set, and otherwise leaves the
\* query, the filter and the list drawn as they were; the step that next opens
\* the panel leaves them as they were too.
C30_ClearSearchOnClose ==
  [][\A i \in DOMAIN inst :
       /\ (i \in DOMAIN inst' /\ inst[i].isOpen /\ ~inst'[i].isOpen
           /\ inst[i].config.clearSearchOnClose)
            => /\ inst'[i].searchQuery = <<>>
               /\ inst'[i].searchInput = <<>>
               /\ inst'[i].filteredData = NullFilter
       /\ (i \in DOMAIN inst' /\ inst[i].isOpen /\ ~inst'[i].isOpen
           /\ ~inst[i].config.clearSearchOnClose)
            => /\ inst'[i].searchQuery = inst[i].searchQuery
               /\ inst'[i].filteredData = inst[i].filteredData
               /\ inst'[i].rendered = inst[i].rendered
       /\ (i \in DOMAIN inst' /\ ~inst[i].isOpen /\ inst'[i].isOpen)
            => /\ inst'[i].searchQuery = inst[i].searchQuery
               /\ inst'[i].filteredData = inst[i].filteredData
               /\ inst'[i].rendered = inst[i].rendered]_vars

\* a panel that keeps its search has just been closed over a query and a
\* filter
C30_Witness ==
  /\ lastOp.op \in {"close", "toggle", "triggerClick", "outsideClick", "Escape"}
  /\ \E i \in DOMAIN inst :
       /\ ~inst[i].isOpen /\ ~inst[i].config.clearSearchOnClose
       /\ inst[i].searchQuery # <<>> /\ ~inst[i].filteredData.isNull
       /\ Len(inst[i].rendered) < Len(flattenOptions(inst[i].optionData))

\* the number of change events the step dispatched on instance i
ChangeCount(i) ==
  Cardinality({k \in DOMAIN inst'[i].events : inst'[i].events[k].name = <<"change">>})

\* C31: removing the tag of value v in a multi-select removes v and nothing
\* else from the selected values, deselects the node of v, deselects the
\* native option of v and no other, emits one change event and leaves isOpen
\* as it was.
C31_TagRemove ==
  [][\A i \in DOMAIN inst :
       (lastOp'.op = "tagRemove" /\ lastOp'.i = i)
         => /\ lastOp'.arg \in Range(inst[i].selectedValues)
            /\ inst'[i].selectedValues
                 = FilterSeq(inst[i].selectedValues,
                             Range(inst[i].selectedValues) \ {lastOp'.arg})
            /\ ~NodeAt(inst'[i].optionData,
                       findOption(inst'[i].optionData, lastOp'.arg)).selected
            /\ Range(getSelectedValues(inst'[i].dom))
                 = Range(getSelectedValues(inst[i].dom)) \ {lastOp'.arg}
            /\ ChangeCount(i) = 1
            /\ inst'[i].isOpen = inst[i].isOpen]_vars

\* the tag of one of two selected values has just been removed while the
\* panel was open
C31_Witness ==
  /\ lastOp.op = "tagRemove" /\ lastOp.i \in DOMAIN inst
  /\ inst[lastOp.i].isOpen
  /\ Len(lastOp.before) = 2
  /\ Len(inst[lastOp.i].selectedValues) = 1
  /\ lastOp.arg \notin Range(inst[lastOp.i].selectedValues)

\* the number of nodes that precede the top-level node k in pre-order
RECURSIVE NodesBefore(_, _)
NodesBefore(tree, k) ==
  IF k = 1 THEN 0 ELSE NodesBefore(tree, k - 1) + 1 + Len(tree[k - 1].children)

\* flat is the pre-order of the tree: every top-level node at the position
\* after all nodes of the top-level nodes before it, its children right after
\* it in their order, and nothing else
PreOrder(flat, tree) ==
  /\ Len(flat) = NodesBefore(tree, Len(tree) + 1)
  /\ \A k \in DOMAIN tree :
       /\ flat[NodesBefore(tree, k) + 1] = tree[k]
       /\ \A j \in DOMAIN tree[k].children :
            flat[NodesBefore(tree, k) + 1 + j] = tree[k].children[j]

\* C32: flattenOptions lists the nodes of the tree in pre-order, each node
\* once, and as many as getAllValues lists values.
C32_FlattenPreOrder ==
  \A i \in DOMAIN inst :
    /\ PreOrder(flattenOptions(inst[i].optionData), inst[i].optionData)
    /\ \A a, b \in DOMAIN FlattenPaths(inst[i].optionData) :
         a # b => FlattenPaths(inst[i].optionData)[a] # FlattenPaths(inst[i].optionData)[b]
    /\ Len(flattenOptions(inst[i].optionData)) = Len(getAllValues(inst[i].optionData))
    /\ PreOrder(flattenOptions(inst[i].oldData), inst[i].oldData)

\* a tree with a group of two children and a standalone option, some of its
\* nodes selected by a click, flattens to group, child, child, option
C32_Witness ==
  \E i \in DOMAIN inst :
    /\ lastOp.op = "click" /\ lastOp.i = i
    /\ Len(inst[i].optionData) = 2 /\ Len(inst[i].optionData[1].children) = 2
    /\ inst[i].optionData[1].children[1].selected
    /\ getAllValues(inst[i].optionData) = <<GroupKey(<<"F">>), <<"a">>, <<"b">>, <<"c">>>>

\* the instance after selectWithCascade(node, tree, true) on the node at p
SelectedOnce(s, p) == selectWithCascade(s, Ref(FALSE, p), TRUE)

\* C33: the cascading select of a node applied twice in a row leaves the same
\* selected nodes and the same group flags as applied once.
C33_CascadeIdempotent ==
  \A i \in DOMAIN inst :
    \A k \in DOMAIN FlattenPaths(inst[i].optionData) :
      SelectedOnce(SelectedOnce(inst[i], FlattenPaths(inst[i].optionData)[k]),
                   FlattenPaths(inst[i].optionData)[k]).optionData
        = SelectedOnce(inst[i], FlattenPaths(inst[i].optionData)[k]).optionData

\* a group with one of its two children selected, on which the cascading
\* select changes the tree
C33_Witness ==
  \E i \in DOMAIN inst :
    /\ inst[i].config.nestedOptions /\ inst[i].config.cascadeSelection
    /\ lastOp.op = "click" /\ lastOp.i = i
    /\ inst[i].optionData[1].indeterminate
    /\ SelectedChildren(inst[i].optionData[1]) = 1
    /\ SelectedOnce(inst[i], <<1>>).optionData # inst[i].optionData
    /\ ChildrenAll(SelectedOnce(inst[i], <<1>>).optionData[1], TRUE)

\* the step just taken dispatched the instance's own event `name`
Emitted(s, name) == \E k \in DOMAIN s.events : s.events[k].name = Prefixed(s, name)

\* C34: a deferred close that is pending when the panel opens was scheduled
\* before that open session began, and does not close the panel when it runs.
C34_StaleCloseIgnored ==
  [][\A i \in DOMAIN inst :
       (/\ inst[i].kind = "single"
        /\ Emitted(inst[i], "open") /\ inst[i].isOpen
        /\ lastOp'.op = "closeTimer" /\ lastOp'.i = i)
         => inst'[i].isOpen]_vars

\* C35: between disable() and the next enable() the panel is closed.
C35_DisabledIsClosed ==
  \A i \in DOMAIN inst : inst[i].disabled => ~inst[i].isOpen

\* C36: when refresh() has returned, every node of the visible list is a node
\* of the tree it has just built, also when a filter was in place.
C36_RefreshDropsOldNodes ==
  [][\A i \in DOMAIN inst :
       (lastOp'.op = "refresh" /\ lastOp'.i = i)
         => \A k \in DOMAIN getVisibleOptions(inst'[i]) :
              ~getVisibleOptions(inst'[i])[k].old]_vars

\* the open and close events among those a step dispatched, in order
RECURSIVE OpenCloseEvents(_, _)
OpenCloseEvents(s, k) ==
  IF k > Len(s.events) THEN <<>>
  ELSE (IF s.events[k].name \in {Prefixed(s, "open"), Prefixed(s, "close")}
        THEN <<s.events[k].name[2]>> ELSE <<>>)
       \o OpenCloseEvents(s, k + 1)

\* the events continue an alternation in which the last one before them was
\* an open exactly when wasOpen
Alternate(names, wasOpen) ==
  \A k \in DOMAIN names :
    names[k] = (IF wasOpen = (k % 2 = 1) THEN "close" ELSE "open")

\* C37: the open and close events of an instance alternate strictly, the
\* first being an open: no panel starts open, and every step dispatches open
\* and close events that continue the alternation, isOpen telling which came
\* last.
C37_OpenCloseAlternate ==
  /\ \A i \in DOMAIN inst : ~inst[i].isOpen
  /\ [][\A i \in DOMAIN inst' :
          /\ Alternate(OpenCloseEvents(inst'[i], 1), i \in DOMAIN inst /\ inst[i].isOpen)
          /\ inst'[i].isOpen
               = ((i \in DOMAIN inst /\ inst[i].isOpen)
                    = (Len(OpenCloseEvents(inst'[i], 1)) % 2 = 0))]_vars

\* an instance has just opened and in doing so closed another, each
\* dispatching its event
C37_Witness ==
  /\ lastOp.op \in {"open", "toggle", "triggerClick"} /\ lastOp.i \in DOMAIN inst
  /\ Emitted(inst[lastOp.i], "open") /\ inst[lastOp.i].isOpen
  /\ \E j \in DOMAIN inst :
       j # lastOp.i /\ Emitted(inst[j], "close") /\ ~inst[j].isOpen

\* C38: focusedOptionIndex is -1 or the index of a node of the visible list.
C38_FocusedIndexValid ==
  \A i \in DOMAIN inst :
    \/ inst[i].focusedOptionIndex = -1
    \/ /\ 0 <= inst[i].focusedOptionIndex
       /\ inst[i].focusedOptionIndex < Len(getVisibleOptions(inst[i]))

\* C39: the filter is null exactly when the search query is the empty string.
C39_FilterNullIffNoQuery ==
  \A i \in DOMAIN inst : inst[i].filteredData.isNull <=> inst[i].searchQuery = <<>>

\* refresh() has just run on an open panel over a query and its filter, with
\* different text waiting in the search field for the debounced pass
C39_Witness ==
  \E i \in DOMAIN inst :
    /\ lastOp.op = "refresh" /\ lastOp.i = i
    /\ inst[i].isOpen
    /\ inst[i].searchQuery # <<>> /\ ~inst[i].filteredData.isNull
    /\ inst[i].searchTimer /\ inst[i].searchInput # inst[i].searchQuery

====
